---- MODULE Spec2Model ----
(***************************************************************************)
(* REGAIN workout engine (js/core/workout-engine.js): the milestone /      *)
(* progression tracker and the session assembler, modelled as state        *)
(* machines over the values the JavaScript code manipulates.               *)
(*                                                                         *)
(* JavaScript objects that the code shares by reference (the inner         *)
(* per-exercise milestone objects) live in `heap`; an object literal or a  *)
(* spread creates a new object, an assignment through a reference writes   *)
(* the shared one.                                                          *)
(***************************************************************************)
EXTENDS Integers, Sequences, FiniteSets, TLC

VARIABLES
    heap,      \* inner milestone objects { variationId: count }, by address
    profile,   \* the milestone map the caller holds: exerciseId -> address
    call,      \* the last engine call: its arguments, snapshot and result
    updates,   \* number of updateMilestone calls made so far
    server,    \* what fetch() answers for each candidate path, in path order
    pc,        \* position of the generateSession call in progress
    args,      \* arguments of the generateSession call in progress
    loaded,    \* what `await loadExercises()` produced
    locals,    \* generateSession's local variables once it has run
    outcome,   \* what generateSession returned or threw
    now,       \* the last value the clock (Date.now()) was read at
    systemIds, \* ids of the WeeklySystems returned so far, in order
    localStorage, \* the cached profile of the user (dbService), or null
    firestore,    \* the user's profile document on the server, or null
    inflight,     \* the setDoc / getDoc requests that have not settled
    events        \* what the dbService calls did so far, in order

trackerVars == <<heap, profile, call, updates>>
sessionVars == <<server, pc, args, loaded, locals, outcome>>
weeklyVars == <<now, systemIds>>
cacheVars == <<localStorage, firestore, inflight, events>>
vars == <<heap, profile, call, updates, server, pc, args, loaded, locals, outcome,
          now, systemIds, localStorage, firestore, inflight, events>>

(***************************************************************************)
(* Values                                                                  *)
(***************************************************************************)
\* JavaScript null / undefined where an object is expected.
Null == [null |-> TRUE]

Min(a, b) == IF a < b THEN a ELSE b

\* constants.js OVERLOAD_PERIOD_SESSIONS
OVERLOAD_PERIOD_SESSIONS == 3

\* JavaScript null / undefined where a string is expected.
NoString == "<undefined>"

\* A variation; primary and secondary are target_muscles.primary / .secondary.
Var(id, score, progressionType, bilaterality, primary, secondary) ==
    [id |-> id, difficulty_score |-> score, progression_type |-> progressionType,
     bilaterality |-> bilaterality, primary |-> primary, secondary |-> secondary]

Variation(id, score) == Var(id, score, "load", "bilateral", <<>>, <<>>)

\* The same variation without a difficulty_score field.
Unscored(v) == [f \in DOMAIN v \ {"difficulty_score"} |-> v[f]]

Exercise(id, discipline, variations) ==
    [id |-> id, discipline |-> discipline, variations |-> variations]

(***************************************************************************)
(* Bounds                                                                  *)
(***************************************************************************)
MaxInitEntries == 3   \* entries of an input milestone object (pure calls)
MaxSeedEntries == 1   \* entries of the profile's initial milestone object
MaxUpdates == 3       \* updateMilestone calls in one behaviour

(***************************************************************************)
(* Inner milestone objects: a JavaScript object { variationId: count },    *)
(* kept as the sequence of its entries in Object.entries order (string     *)
(* keys iterate in insertion order).                                       *)
(***************************************************************************)
RECURSIVE IndexOfId(_, _, _)
IndexOfId(entries, id, i) ==
    IF i > Len(entries) THEN 0
    ELSE IF entries[i].id = id THEN i
    ELSE IndexOfId(entries, id, i + 1)

HasKey(obj, id) == IndexOfId(obj, id, 1) # 0

\* obj[id] || 0
CountOrZero(obj, id) ==
    IF HasKey(obj, id) THEN obj[IndexOfId(obj, id, 1)].count ELSE 0

\* obj[id] = n : an existing key keeps its position, a new key goes last
SetCount(obj, id, n) ==
    IF HasKey(obj, id)
    THEN [obj EXCEPT ![IndexOfId(obj, id, 1)].count = n]
    ELSE Append(obj, [id |-> id, count |-> n])

\* currentMilestones?.[exerciseId] || {}
MilestonesOf(currentMilestones, exerciseId) ==
    IF exerciseId \in DOMAIN currentMilestones
    THEN currentMilestones[exerciseId]
    ELSE <<>>

(***************************************************************************)
(* getVariationsForExercise: a copy of the variations, stably sorted by    *)
(* (difficulty_score || 0) ascending (Array.prototype.sort is stable).     *)
(***************************************************************************)
\* variation.difficulty_score || 0
Score(v) == IF "difficulty_score" \in DOMAIN v THEN v.difficulty_score ELSE 0

\* InsertByScore placing v before the elements of equal score
RECURSIVE InsertByScore_BeforeEquals(_, _)
InsertByScore_BeforeEquals(sorted, v) ==
    IF sorted = <<>> THEN <<v>>
    ELSE IF Score(sorted[Len(sorted)]) < Score(v) THEN Append(sorted, v)
    ELSE Append(InsertByScore_BeforeEquals(SubSeq(sorted, 1, Len(sorted) - 1), v),
                sorted[Len(sorted)])

RECURSIVE InsertByScore(_, _)
InsertByScore(sorted, v) ==
    IF sorted = <<>> THEN <<v>>
    ELSE IF Score(sorted[Len(sorted)]) <= Score(v) THEN Append(sorted, v)
    ELSE Append(InsertByScore(SubSeq(sorted, 1, Len(sorted) - 1), v),
                sorted[Len(sorted)])

RECURSIVE SortByScore(_)
SortByScore(s) ==
    IF s = <<>> THEN <<>>
    ELSE InsertByScore(SortByScore(SubSeq(s, 1, Len(s) - 1)), s[Len(s)])

getVariationsForExercise(exercise) ==
    IF exercise = Null THEN <<>> ELSE SortByScore(exercise.variations)

\* Array.prototype.findIndex(v => v.id === id), 1-based; 0 when not found
RECURSIVE FindIndexById(_, _, _)
FindIndexById(variations, id, i) ==
    IF i > Len(variations) THEN 0
    ELSE IF variations[i].id = id THEN i
    ELSE FindIndexById(variations, id, i + 1)

(***************************************************************************)
(* getCurrentVariation                                                     *)
(***************************************************************************)
\* The loop over Object.entries(milestones): the state is
\* <<currentVariationId, highestSessionCount>>.
RECURSIVE ScanMilestones(_, _, _)
ScanMilestones(entries, i, best) ==
    IF i > Len(entries) THEN best
    ELSE IF entries[i].count > best[2]
            /\ entries[i].count < OVERLOAD_PERIOD_SESSIONS
         THEN ScanMilestones(entries, i + 1, <<entries[i].id, entries[i].count>>)
         ELSE ScanMilestones(entries, i + 1, best)

RECURSIVE ScanMilestonesLastWins(_, _, _)
ScanMilestonesLastWins(entries, i, best) ==
    IF i > Len(entries) THEN best
    ELSE IF entries[i].count >= best[2]
            /\ entries[i].count < OVERLOAD_PERIOD_SESSIONS
         THEN ScanMilestonesLastWins(entries, i + 1,
                                     <<entries[i].id, entries[i].count>>)
         ELSE ScanMilestonesLastWins(entries, i + 1, best)

NoId == "<none>"

FirstOrNull(s) == IF s = <<>> THEN Null ELSE s[1]

getCurrentVariation_LastWins(exerciseId, currentMilestones, exercise) ==
    IF exercise = Null \/ exercise.variations = <<>> THEN Null
    ELSE
        LET sortedVariations == getVariationsForExercise(exercise)
            milestones == MilestonesOf(currentMilestones, exerciseId)
            currentVariationId ==
                ScanMilestonesLastWins(milestones, 1, <<NoId, -1>>)[1]
            idx == FindIndexById(sortedVariations, currentVariationId, 1)
        IN  IF currentVariationId = NoId THEN FirstOrNull(sortedVariations)
            ELSE IF idx # 0 THEN sortedVariations[idx]
            ELSE FirstOrNull(sortedVariations)

getCurrentVariation(exerciseId, currentMilestones, exercise) ==
    IF exercise = Null \/ exercise.variations = <<>> THEN Null
    ELSE
        LET sortedVariations == getVariationsForExercise(exercise)
            milestones == MilestonesOf(currentMilestones, exerciseId)
            currentVariationId == ScanMilestones(milestones, 1, <<NoId, -1>>)[1]
            idx == FindIndexById(sortedVariations, currentVariationId, 1)
        IN  IF currentVariationId = NoId THEN FirstOrNull(sortedVariations)
            ELSE IF idx # 0 THEN sortedVariations[idx]
            ELSE FirstOrNull(sortedVariations)

(***************************************************************************)
(* getNextVariation                                                        *)
(***************************************************************************)
getNextVariation_CatalogOrder(exercise, currentVariationId) ==
    LET currentIndex == FindIndexById(exercise.variations, currentVariationId, 1)
    IN  IF currentIndex = 0 \/ currentIndex = Len(exercise.variations)
        THEN Null
        ELSE exercise.variations[currentIndex + 1]

getNextVariation(exercise, currentVariationId) ==
    IF exercise = Null THEN Null
    ELSE
        LET sortedVariations == getVariationsForExercise(exercise)
            currentIndex == FindIndexById(sortedVariations, currentVariationId, 1)
        IN  IF currentIndex = 0 \/ currentIndex = Len(sortedVariations)
            THEN Null
            ELSE sortedVariations[currentIndex + 1]

(***************************************************************************)
(* selectVariationForUser                                                  *)
(***************************************************************************)
selectVariationForUser_StrictlyAbove(exercise, currentMilestones) ==
    IF exercise = Null THEN Null
    ELSE
        LET exerciseId == exercise.id
            currentVariation ==
                getCurrentVariation(exerciseId, currentMilestones, exercise)
        IN  IF currentVariation = Null THEN Null
            ELSE
                LET milestoneData == MilestonesOf(currentMilestones, exerciseId)
                    sessionCount == CountOrZero(milestoneData, currentVariation.id)
                    nextVariation == getNextVariation(exercise, currentVariation.id)
                IN  IF sessionCount > OVERLOAD_PERIOD_SESSIONS
                       /\ nextVariation # Null
                    THEN nextVariation
                    ELSE currentVariation

selectVariationForUser(exercise, currentMilestones) ==
    IF exercise = Null THEN Null
    ELSE
        LET exerciseId == exercise.id
            currentVariation ==
                getCurrentVariation(exerciseId, currentMilestones, exercise)
        IN  IF currentVariation = Null THEN Null
            ELSE
                LET milestoneData == MilestonesOf(currentMilestones, exerciseId)
                    sessionCount == CountOrZero(milestoneData, currentVariation.id)
                    nextVariation == getNextVariation(exercise, currentVariation.id)
                IN  IF sessionCount >= OVERLOAD_PERIOD_SESSIONS
                       /\ nextVariation # Null
                    THEN nextVariation
                    ELSE currentVariation

(***************************************************************************)
(* updateMilestone.  `{ ...currentMilestones }` is a new outer object      *)
(* holding the same references to the inner objects; `updated[e] = {}`     *)
(* allocates a new inner object; `updated[e][v] = n` writes the inner      *)
(* object the reference points to.  The result is the returned outer map   *)
(* and the heap after the call.                                            *)
(***************************************************************************)
updateMilestone_NoCap(exerciseId, variationId, currentMilestones, h) ==
    LET absent == exerciseId \notin DOMAIN currentMilestones
        h1 == IF absent THEN Append(h, <<>>) ELSE h
        updated == IF absent
                   THEN currentMilestones @@ (exerciseId :> Len(h1))
                   ELSE currentMilestones
        addr == updated[exerciseId]
        currentCount == CountOrZero(h1[addr], variationId)
    IN  [returned |-> updated,
         heap |-> [h1 EXCEPT ![addr] =
                      SetCount(h1[addr], variationId, currentCount + 1)]]

updateMilestone(exerciseId, variationId, currentMilestones, h) ==
    LET absent == exerciseId \notin DOMAIN currentMilestones
        h1 == IF absent THEN Append(h, <<>>) ELSE h
        updated == IF absent
                   THEN currentMilestones @@ (exerciseId :> Len(h1))
                   ELSE currentMilestones
        addr == updated[exerciseId]
        currentCount == CountOrZero(h1[addr], variationId)
    IN  [returned |-> updated,
         heap |-> [h1 EXCEPT ![addr] =
                      SetCount(h1[addr], variationId,
                               Min(currentCount + 1, OVERLOAD_PERIOD_SESSIONS))]]

\* What a reader of the outer map m sees in heap h.
View(m, h) == [e \in DOMAIN m |-> h[m[e]]]

(***************************************************************************)
(* Exercises used as inputs of the progression tracker.  Variations are    *)
(* listed out of difficulty order, with equal scores and with a missing    *)
(* score, so that the sort, its stability and the `|| 0` default matter.   *)
(***************************************************************************)
ExA == Exercise("exA", "Pilates", <<Variation("V1", 1), Variation("V2", 5)>>)
ExB == Exercise("exB", "Pilates",
                <<Variation("V3", 3), Variation("V1", 1), Variation("V2", 3)>>)
ExC == Exercise("exC", "Pilates",
                <<Unscored(Variation("V2", 0)), Variation("V3", 2),
                  Variation("V1", 0)>>)
ExNone == Exercise("exNone", "Pilates", <<>>)

TrackerExercises == {ExA, ExB, ExC, ExNone}

\* Variation ids a milestone object may record; "VX" belongs to no exercise
\* (a variation that has since left the catalog).
RecordedIds == {"V1", "V2", "V3", "VX"}
SeedIds == {"V1", "V2", "VX"}

Counts == 0..OVERLOAD_PERIOD_SESSIONS

\* All milestone objects with at most n entries, over distinct ids.
RECURSIVE MilestoneObjects(_, _)
MilestoneObjects(ids, n) ==
    IF n = 0 THEN {<<>>}
    ELSE LET shorter == MilestoneObjects(ids, n - 1)
         IN  shorter \cup
             {Append(obj, [id |-> id, count |-> c]) :
                 obj \in {o \in shorter : Len(o) = n - 1},
                 id \in ids, c \in Counts}

DistinctIds(obj) ==
    \A i, j \in 1..Len(obj) : obj[i].id = obj[j].id => i = j

MilestoneInputs(ids, n) == {obj \in MilestoneObjects(ids, n) : DistinctIds(obj)}

(***************************************************************************)
(* Pure calls of the tracker: Init draws an exercise and a milestone map,  *)
(* the actions apply getCurrentVariation and selectVariationForUser.       *)
(***************************************************************************)
\* dbService has done nothing
CacheIdle ==
    /\ localStorage = Null
    /\ firestore = Null
    /\ inflight = {}
    /\ events = <<>>

WeeklyIdle ==
    /\ now = 0
    /\ systemIds = <<>>

SessionIdle ==
    /\ server = <<>>
    /\ pc = "idle"
    /\ args = Null
    /\ loaded = Null
    /\ locals = Null
    /\ outcome = Null

InitTracker ==
    /\ SessionIdle
    /\ WeeklyIdle
    /\ CacheIdle
    /\ heap = <<>>
    /\ profile = <<>>
    /\ updates = 0
    /\ \E exercise \in TrackerExercises :
       \E obj \in MilestoneInputs(RecordedIds, MaxInitEntries) :
       \E present \in BOOLEAN :
          call = [op |-> "input",
                  exercise |-> exercise,
                  milestones |-> IF present THEN (exercise.id :> obj) ELSE <<>>]

GetCurrentVariationCall ==
    /\ call.op = "input"
    /\ call' = [op |-> "getCurrentVariation",
                exercise |-> call.exercise,
                milestones |-> call.milestones,
                result |-> getCurrentVariation(call.exercise.id,
                                               call.milestones, call.exercise)]
    /\ UNCHANGED <<heap, profile, updates>>
    /\ UNCHANGED sessionVars
    /\ UNCHANGED weeklyVars
    /\ UNCHANGED cacheVars

SelectVariationForUserCall ==
    /\ call.op = "input"
    /\ call' = [op |-> "selectVariationForUser",
                exercise |-> call.exercise,
                milestones |-> call.milestones,
                result |-> selectVariationForUser(call.exercise, call.milestones)]
    /\ UNCHANGED <<heap, profile, updates>>
    /\ UNCHANGED sessionVars
    /\ UNCHANGED weeklyVars
    /\ UNCHANGED cacheVars

NextTracker == GetCurrentVariationCall \/ SelectVariationForUserCall

SpecTracker == InitTracker /\ [][NextTracker]_vars

(***************************************************************************)
(* The profile's milestone map under successive updateMilestone calls:     *)
(* the caller passes the map it holds and keeps the returned one.          *)
(***************************************************************************)
UpdateTargets == {<<"exA", "V1">>, <<"exA", "V2">>,
                  <<"exB", "V1">>, <<"exB", "V3">>}

InitMilestones ==
    /\ SessionIdle
    /\ WeeklyIdle
    /\ CacheIdle
    /\ updates = 0
    /\ call = [op |-> "none"]
    /\ \/ heap = <<>> /\ profile = <<>>
       \/ \E e \in {"exA", "exB"} :
          \E obj \in MilestoneInputs(SeedIds, MaxSeedEntries) :
             heap = <<obj>> /\ profile = (e :> 1)

UpdateMilestoneCall(exerciseId, variationId) ==
    /\ updates < MaxUpdates
    /\ LET r == updateMilestone(exerciseId, variationId, profile, heap)
       IN  /\ heap' = r.heap
           /\ profile' = r.returned
           /\ call' = [op |-> "updateMilestone",
                       exerciseId |-> exerciseId,
                       variationId |-> variationId,
                       input |-> profile,
                       before |-> View(profile, heap),
                       returned |-> r.returned]
    /\ updates' = updates + 1
    /\ UNCHANGED sessionVars
    /\ UNCHANGED weeklyVars
    /\ UNCHANGED cacheVars

NextMilestones == \E t \in UpdateTargets : UpdateMilestoneCall(t[1], t[2])

SpecMilestones == InitMilestones /\ [][NextMilestones]_vars

(***************************************************************************)
(* Reference notions for the tracker's claims, stated on the exercise's    *)
(* own variations list and on the milestone entries, without the sort or   *)
(* the scan loop.                                                          *)
(***************************************************************************)
\* variation j comes before variation k in stable ascending-difficulty order
Precedes(vs, j, k) ==
    \/ Score(vs[j]) < Score(vs[k])
    \/ Score(vs[j]) = Score(vs[k]) /\ j < k

RankOf(vs, k) == Cardinality({j \in 1..Len(vs) : Precedes(vs, j, k)}) + 1

AtRank(vs, r) == vs[CHOOSE k \in 1..Len(vs) : RankOf(vs, k) = r]

RankOfId(vs, id) == RankOf(vs, CHOOSE k \in 1..Len(vs) : vs[k].id = id)

HasVariation(vs, id) == \E k \in 1..Len(vs) : vs[k].id = id

RecordedCount(milestones, exerciseId, variationId) ==
    IF /\ exerciseId \in DOMAIN milestones
       /\ \E i \in 1..Len(milestones[exerciseId]) :
              milestones[exerciseId][i].id = variationId
    THEN LET obj == milestones[exerciseId]
         IN  obj[CHOOSE i \in 1..Len(obj) : obj[i].id = variationId].count
    ELSE 0

RecordedEntries(milestones, exerciseId) ==
    IF exerciseId \in DOMAIN milestones THEN milestones[exerciseId] ELSE <<>>

\* entries with a count strictly below the overload period
InProgress(obj) == {i \in 1..Len(obj) : obj[i].count < OVERLOAD_PERIOD_SESSIONS}

\* the in-progress entry with the highest count, the first one on ties
BestInProgress(obj) ==
    CHOOSE i \in InProgress(obj) :
        \A j \in InProgress(obj) :
            \/ obj[j].count < obj[i].count
            \/ obj[j].count = obj[i].count /\ i <= j

(***************************************************************************)
(* C1: selectVariationForUser returns the variation after                  *)
(* getCurrentVariation's result in ascending-difficulty order when that    *)
(* result's recorded count is at least 3 and a next variation exists, and  *)
(* getCurrentVariation's result unchanged in every other case; for         *)
(* [V1, V2], {V1: 3} gives V2 and {V1: 2} gives V1.                         *)
(***************************************************************************)
C1_Expected(exercise, milestones) ==
    LET current == getCurrentVariation(exercise.id, milestones, exercise)
        vs == exercise.variations
    IN  IF current = Null THEN Null
        ELSE IF /\ RecordedCount(milestones, exercise.id, current.id) >= 3
                /\ RankOfId(vs, current.id) < Len(vs)
             THEN AtRank(vs, RankOfId(vs, current.id) + 1)
             ELSE current

C1_SelectUpgradesAtThreshold ==
    call.op = "selectVariationForUser" =>
        /\ call.result = C1_Expected(call.exercise, call.milestones)
        /\ (call.exercise = ExA
            /\ call.milestones = ("exA" :> <<[id |-> "V1", count |-> 3]>>))
               => call.result.id = "V2"
        /\ (call.exercise = ExA
            /\ call.milestones = ("exA" :> <<[id |-> "V1", count |-> 2]>>))
               => call.result.id = "V1"

C1_Witness ==
    /\ call.op = "selectVariationForUser"
    /\ call.exercise = ExB
    /\ RecordedCount(call.milestones, "exB", "V1") = 3
    /\ getCurrentVariation("exB", call.milestones, ExB).id = "V1"
    /\ call.result.id = "V3"

(***************************************************************************)
(* C2: updateMilestone never modifies its input map: every count readable  *)
(* through the input after the call equals its value before the call.      *)
(***************************************************************************)
C2_InputNeverModified ==
    call.op = "updateMilestone" => View(call.input, heap) = call.before

(***************************************************************************)
(* C3: every recorded count stays in 0..3; a call sets the count of its    *)
(* pair to min(previous + 1, 3) (previous = 0 when absent), leaves every   *)
(* other pair's count as it was, and no count decreases.                   *)
(***************************************************************************)
TrackedExerciseIds == {"exA", "exB"}

C3_CountsSaturate ==
    /\ \A a \in 1..Len(heap) : \A i \in 1..Len(heap[a]) :
           heap[a][i].count \in 0..3
    /\ call.op = "updateMilestone" =>
           LET after == View(call.returned, heap)
           IN  \A e \in TrackedExerciseIds : \A v \in RecordedIds :
                   /\ RecordedCount(after, e, v) =
                          IF e = call.exerciseId /\ v = call.variationId
                          THEN Min(RecordedCount(call.before, e, v) + 1, 3)
                          ELSE RecordedCount(call.before, e, v)
                   /\ RecordedCount(after, e, v) >= RecordedCount(call.before, e, v)
                   /\ RecordedCount(View(call.input, heap), e, v)
                          >= RecordedCount(call.before, e, v)

C3_Witness ==
    /\ call.op = "updateMilestone"
    /\ updates = 3
    /\ RecordedCount(call.before, call.exerciseId, call.variationId) = 3
    /\ RecordedCount(View(profile, heap), call.exerciseId, call.variationId) = 3
    /\ \E e \in TrackedExerciseIds : \E v \in RecordedIds :
           /\ <<e, v>> # <<call.exerciseId, call.variationId>>
           /\ RecordedCount(call.before, e, v) > 0

(***************************************************************************)
(* C4: getCurrentVariation returns the variation whose id is, among the    *)
(* ids recorded for the exercise with a count strictly below 3, the one    *)
(* with the highest count (first in map order on ties); the exercise's     *)
(* lowest-difficulty variation when no recorded count is below 3; null     *)
(* only when the exercise has no variations.                               *)
(***************************************************************************)
C4_AsClaimed ==
    call.op = "getCurrentVariation" =>
        LET vs == call.exercise.variations
            obj == RecordedEntries(call.milestones, call.exercise.id)
        IN  IF vs = <<>> THEN call.result = Null
            ELSE IF InProgress(obj) = {} THEN call.result = AtRank(vs, 1)
            ELSE /\ call.result # Null
                 /\ call.result.id = obj[BestInProgress(obj)].id

\* C4 as amended: the same, provided the chosen id is the id of one of the
\* exercise's variations; when it is not, the lowest-difficulty variation.
C4_CurrentVariation ==
    call.op = "getCurrentVariation" =>
        LET vs == call.exercise.variations
            obj == RecordedEntries(call.milestones, call.exercise.id)
        IN  IF vs = <<>> THEN call.result = Null
            ELSE /\ call.result # Null
                 /\ IF InProgress(obj) = {} THEN call.result = AtRank(vs, 1)
                    ELSE IF HasVariation(vs, obj[BestInProgress(obj)].id)
                    THEN /\ call.result.id = obj[BestInProgress(obj)].id
                         /\ HasVariation(vs, call.result.id)
                         /\ call.result \in {vs[k] : k \in 1..Len(vs)}
                    ELSE call.result = AtRank(vs, 1)

C4_Witness ==
    /\ call.op = "getCurrentVariation"
    /\ call.exercise = ExB
    /\ call.milestones = ("exB" :> <<[id |-> "V1", count |-> 3],
                                     [id |-> "V2", count |-> 2],
                                     [id |-> "V3", count |-> 2]>>)
    /\ call.result.id = "V2"

(***************************************************************************)
(* Strings.  toLowerCase, split('/') and trim are given by what they do on *)
(* the muscle and framework names that occur.                              *)
(***************************************************************************)
\* String.prototype.toLowerCase
ToLowerCase(m) ==
    CASE m = "Chest" -> "chest"
      [] m = "Back" -> "back"
      [] m = "Shoulders" -> "shoulders"
      [] m = "Triceps" -> "triceps"
      [] m = "Biceps" -> "biceps"
      [] m = "Quadriceps" -> "quadriceps"
      [] m = "Glutes" -> "glutes"
      [] m = "CHEST" -> "chest"
      [] m = "QUADRICEPS" -> "quadriceps"
      [] OTHER -> m

\* framework.split('/') followed by part.trim()
SplitFramework(framework) ==
    CASE framework = "Push/Pull" -> <<"Push", "Pull">>
      [] framework = "Push/Pull/Legs" -> <<"Push", "Pull", "Legs">>
      [] framework = "Upper/Lower" -> <<"Upper", "Lower">>
      [] framework = "Chest/Back/Legs" -> <<"Chest", "Back", "Legs">>
      [] framework = "Cardio/Legs" -> <<"Cardio", "Legs">>
      [] framework = "Push / Legs" -> <<"Push", "Legs">>
      [] framework = "Cardio/Core" -> <<"Cardio", "Core">>
      [] OTHER -> <<framework>>

\* Array.prototype.includes
Includes(seq, x) == \E i \in 1..Len(seq) : seq[i] = x

\* Array.prototype.some over two lists compared in lower case
MapLower(seq) == [i \in 1..Len(seq) |-> ToLowerCase(seq[i])]

\* !x for a string-or-null value
Falsy(x) == x = NoString \/ x = ""

(***************************************************************************)
(* constants.js (not part of the sources at hand): the framework -> muscle *)
(* mapping and the per-phase criteria.                                     *)
(***************************************************************************)
FRAMEWORK_MUSCLE_MAPPINGS ==
    [Push |-> [primary |-> <<"Chest", "Shoulders", "Triceps">>, secondary |-> <<>>],
     Pull |-> [primary |-> <<"Back", "Biceps">>, secondary |-> <<>>],
     Legs |-> [primary |-> <<"Quadriceps", "Glutes">>, secondary |-> <<>>]]

PHASE_CRITERIA ==
    [WARMUP |-> [maxDifficulty |-> 3,
                 preferredProgressionTypes |-> <<"mobility", "stability">>,
                 preferredBilaterality |-> "unilateral"],
     WORKOUT |-> [minDifficulty |-> 4, maxDifficulty |-> 10],
     COOLDOWN |-> [maxDifficulty |-> 3,
                   preferredProgressionTypes |-> <<"mobility", "flexibility">>]]

\* phase.toUpperCase() as a key of PHASE_CRITERIA
PhaseKey(phase) ==
    CASE phase = "warmup" -> "WARMUP"
      [] phase = "workout" -> "WORKOUT"
      [] phase = "cooldown" -> "COOLDOWN"
      [] phase = "Warmup" -> "WARMUP"
      [] phase = "WORKOUT" -> "WORKOUT"
      [] phase = "Cooldown" -> "COOLDOWN"
      [] phase = "stretch" -> "STRETCH"
      [] phase = "main" -> "MAIN"
      [] OTHER -> phase

(***************************************************************************)
(* Filters.  The exercises argument is always an array here, so the        *)
(* `!exercises || !Array.isArray(exercises)` guards never apply.           *)
(***************************************************************************)
\* [...primary, ...secondary].map(m => m.toLowerCase())
MusclesOf(variation) == MapLower(variation.primary \o variation.secondary)

\* exercises.filter(exercise => exercise.discipline &&
\*                               disciplineArray.includes(exercise.discipline))
DisciplineFilter(exercises, disciplineArray) ==
    SelectSeq(exercises,
              LAMBDA exercise :
                  /\ ~Falsy(exercise.discipline)
                  /\ Includes(disciplineArray, exercise.discipline))

\* filterExercisesByDiscipline called with a string or null criterion
\* no filtering by discipline at all
filterExercisesByDiscipline_All(exercises, disciplines) == exercises

filterExercisesByDiscipline(exercises, disciplines) ==
    IF Falsy(disciplines) THEN exercises
    ELSE DisciplineFilter(exercises, <<disciplines>>)

\* filterExercisesByDiscipline called with an array criterion: an array is
\* truthy even when empty, and is used as disciplineArray itself
filterExercisesByDisciplineArray(exercises, disciplines) ==
    DisciplineFilter(exercises, disciplines)

exerciseMatchesFramework_PrimaryOnly(exercise, framework) ==
    IF framework \notin DOMAIN FRAMEWORK_MUSCLE_MAPPINGS THEN FALSE
    ELSE LET mapping == FRAMEWORK_MUSCLE_MAPPINGS[framework]
             frameworkMuscles == MapLower(mapping.primary \o mapping.secondary)
         IN  \E k \in 1..Len(exercise.variations) :
                 LET muscles == MapLower(exercise.variations[k].primary)
                 IN  \E i \in 1..Len(muscles) : Includes(frameworkMuscles, muscles[i])

exerciseMatchesFramework(exercise, framework) ==
    IF framework \notin DOMAIN FRAMEWORK_MUSCLE_MAPPINGS THEN FALSE
    ELSE IF exercise.variations = <<>> THEN FALSE
    ELSE LET mapping == FRAMEWORK_MUSCLE_MAPPINGS[framework]
             frameworkMuscles == MapLower(mapping.primary \o mapping.secondary)
         IN  \E k \in 1..Len(exercise.variations) :
                 LET muscles == MusclesOf(exercise.variations[k])
                 IN  \E i \in 1..Len(muscles) : Includes(frameworkMuscles, muscles[i])

filterExercisesByFramework(exercises, framework) ==
    IF Falsy(framework) THEN exercises
    ELSE LET frameworkParts == SplitFramework(framework)
         IN  SelectSeq(exercises,
                       LAMBDA exercise :
                           \E p \in 1..Len(frameworkParts) :
                               exerciseMatchesFramework(exercise, frameworkParts[p]))

VariationFitsPhase_TypeOnly(variation, phase, criteria) ==
    CASE phase = "warmup" ->
             /\ Score(variation) <= criteria.maxDifficulty
             /\ Includes(criteria.preferredProgressionTypes, variation.progression_type)
      [] phase = "workout" ->
             /\ Score(variation) >= criteria.minDifficulty
             /\ Score(variation) <= criteria.maxDifficulty
      [] phase = "cooldown" ->
             /\ Score(variation) <= criteria.maxDifficulty
             /\ Includes(criteria.preferredProgressionTypes, variation.progression_type)
      [] OTHER -> FALSE

\* variation.difficulty_score || 0 is Score; progression_type || '' and
\* bilaterality || '' are the fields themselves (always strings here)
VariationFitsPhase(variation, phase, criteria) ==
    LET difficulty == Score(variation)
        progressionType == variation.progression_type
        bilaterality == variation.bilaterality
    IN  CASE phase = "warmup" ->
                 /\ difficulty <= criteria.maxDifficulty
                 /\ \/ Includes(criteria.preferredProgressionTypes, progressionType)
                    \/ bilaterality = criteria.preferredBilaterality
          [] phase = "workout" ->
                 /\ difficulty >= criteria.minDifficulty
                 /\ difficulty <= criteria.maxDifficulty
          [] phase = "cooldown" ->
                 /\ difficulty <= criteria.maxDifficulty
                 /\ Includes(criteria.preferredProgressionTypes, progressionType)
          [] OTHER -> FALSE

filterExercisesByPhase(exercises, phase) ==
    IF Falsy(phase) THEN exercises
    ELSE IF PhaseKey(phase) \notin DOMAIN PHASE_CRITERIA THEN exercises
    ELSE LET criteria == PHASE_CRITERIA[PhaseKey(phase)]
         IN  SelectSeq(exercises,
                       LAMBDA exercise :
                           \E k \in 1..Len(exercise.variations) :
                               VariationFitsPhase(exercise.variations[k],
                                                  phase, criteria))

filterExercisesByEquipment(exercises, availableEquipment) ==
    exercises

filterExercisesByDiscomforts_AnyMuscle(exercises, discomforts) ==
    IF discomforts = <<>> THEN exercises
    ELSE LET discomfortLower == MapLower(discomforts)
         IN  SelectSeq(exercises,
                       LAMBDA exercise :
                           ~ \E k \in 1..Len(exercise.variations) :
                               \E i \in 1..Len(MusclesOf(exercise.variations[k])) :
                                   Includes(discomfortLower,
                                            MusclesOf(exercise.variations[k])[i]))

\* the discomforts compared with the primary muscles as they are written
filterExercisesByDiscomforts_CaseSensitive(exercises, discomforts) ==
    IF discomforts = <<>> THEN exercises
    ELSE SelectSeq(exercises,
                   LAMBDA exercise :
                       ~ \E k \in 1..Len(exercise.variations) :
                           \E i \in 1..Len(exercise.variations[k].primary) :
                               Includes(discomforts,
                                        exercise.variations[k].primary[i]))

filterExercisesByDiscomforts(exercises, discomforts) ==
    IF discomforts = <<>> THEN exercises
    ELSE LET discomfortLower == MapLower(discomforts)
         IN  SelectSeq(exercises,
                       LAMBDA exercise :
                           ~ \E k \in 1..Len(exercise.variations) :
                               \E i \in 1..Len(exercise.variations[k].primary) :
                                   Includes(discomfortLower,
                                            ToLowerCase(exercise.variations[k].primary[i])))

(***************************************************************************)
(* Phase selection                                                         *)
(***************************************************************************)
WarmupCount == 3
WorkoutCount == 5
CooldownCount == 3

PhaseNames == <<"warmup", "workout", "cooldown">>

\* ids of the exercises of one previous session, over its three phases
SessionExerciseIds(session) ==
    IF session = Null \/ "phases" \notin DOMAIN session THEN {}
    ELSE UNION {
           IF PhaseNames[p] \in DOMAIN session.phases
           THEN {session.phases[PhaseNames[p]][i].exerciseId :
                    i \in 1..Len(session.phases[PhaseNames[p]])} \ {NoString}
           ELSE {}
           : p \in 1..3}

ensureVariety(selectedExercises, previousSessions) ==
    IF previousSessions = <<>> THEN selectedExercises
    ELSE LET lastSession == previousSessions[Len(previousSessions)]
             lastSessionExerciseIds == SessionExerciseIds(lastSession)
         IN  SelectSeq(selectedExercises,
                       LAMBDA exercise : exercise.id \notin lastSessionExerciseIds)

extractMusclesFromExercises(exercises) ==
    UNION {UNION {{MusclesOf(exercises[e].variations[k])[i] :
                      i \in 1..Len(MusclesOf(exercises[e].variations[k]))} :
                  k \in 1..Len(exercises[e].variations)} :
           e \in 1..Len(exercises)}

\* [...candidates].sort(() => Math.random() - 0.5).slice(0, n): the first n
\* elements of some permutation of the candidates
ShuffleSlice(candidates, n) ==
    {[i \in 1..n |-> candidates[f[i]]] :
        f \in {g \in [1..n -> 1..Len(candidates)] :
                  \A i, j \in 1..n : g[i] = g[j] => i = j}}

PhaseSelectionPool_NoRevert(exercises, count, previousSessions) ==
    ensureVariety(exercises, previousSessions)

\* the list selectExercisesForPhase shuffles (its local `candidates`)
PhaseSelectionPool(exercises, count, previousSessions) ==
    LET candidates == ensureVariety(exercises, previousSessions)
    IN  IF Len(candidates) < count THEN exercises ELSE candidates

\* the possible return values of selectExercisesForPhase
selectExercisesForPhase(exercises, phase, count, previousSessions) ==
    IF exercises = <<>> THEN {<<>>}
    ELSE LET candidates == PhaseSelectionPool(exercises, count, previousSessions)
         IN  ShuffleSlice(candidates, Min(count, Len(candidates)))

\* selectCooldownExercises: the exercises sharing a muscle with the workout
CooldownMatching(cooldownExercises, workoutMuscles) ==
    SelectSeq(cooldownExercises,
              LAMBDA exercise :
                  \E k \in 1..Len(exercise.variations) :
                      LET muscles == MusclesOf(exercise.variations[k])
                      IN  \E i \in 1..Len(muscles) : muscles[i] \in workoutMuscles)

CooldownSelectionPool_Unlinked(cooldownExercises, workoutMuscles, previousSessions) ==
    ensureVariety(cooldownExercises, previousSessions)

\* the list selectCooldownExercises shuffles (its local `candidates`)
CooldownSelectionPool(cooldownExercises, workoutMuscles, previousSessions) ==
    LET matching == CooldownMatching(cooldownExercises, workoutMuscles)
    IN  ensureVariety(IF Len(matching) > 0 THEN matching ELSE cooldownExercises,
                      previousSessions)

\* the possible return values of selectCooldownExercises
selectCooldownExercises(cooldownExercises, workoutMuscles, previousSessions) ==
    IF cooldownExercises = <<>> THEN {<<>>}
    ELSE LET candidates == CooldownSelectionPool(cooldownExercises, workoutMuscles,
                                                 previousSessions)
         IN  ShuffleSlice(candidates, Min(CooldownCount, Len(candidates)))

(***************************************************************************)
(* applyProgressiveOverload                                                *)
(***************************************************************************)
FieldOrNull(r, f) == IF f \in DOMAIN r THEN r[f] ELSE Null

PlanItem(exercise, variation) ==
    [exerciseId |-> exercise.id,
     variationId |-> variation.id,
     difficulty_score |-> FieldOrNull(variation, "difficulty_score"),
     bilaterality |-> variation.bilaterality,
     progression_type |-> variation.progression_type,
     target_muscles |-> [primary |-> variation.primary,
                         secondary |-> variation.secondary],
     sets |-> Null,
     reps |-> Null]

\* exercises.map(...): null where no variation could be selected
MapToItems(exercises, currentMilestones) ==
    [i \in 1..Len(exercises) |->
        LET variation == selectVariationForUser(exercises[i], currentMilestones)
        IN  IF variation = Null THEN Null ELSE PlanItem(exercises[i], variation)]

applyProgressiveOverload_KeepNull(exercises, currentMilestones) ==
    MapToItems(exercises, currentMilestones)

applyProgressiveOverload(exercises, currentMilestones) ==
    SelectSeq(MapToItems(exercises, currentMilestones), LAMBDA item : item # Null)

(***************************************************************************)
(* loadExercises: the candidate paths are fetched in order; a path fails   *)
(* when fetch rejects ("reject"), when the status is not ok ("http"), when *)
(* response.json() rejects ("badjson") or when the body parses to null     *)
(* ("jsonnull": reading data.exercises throws).                            *)
(***************************************************************************)
RECURSIVE TryPaths(_, _, _)
TryPaths(responses, i, lastError) ==
    IF i > Len(responses)
    THEN [ok |-> FALSE, error |-> lastError, fetched |-> i - 1]
    ELSE IF responses[i].kind = "ok"
         THEN [ok |-> TRUE, data |-> responses[i].data, fetched |-> i]
         ELSE TryPaths(responses, i + 1, [path |-> i, cause |-> responses[i].kind])

loadExercises(responses) ==
    LET r == TryPaths(responses, 1, Null)
    IN  IF r.ok THEN r
        ELSE [ok |-> FALSE,
              error |-> [message |-> "Failed to load exercises", cause |-> r.error],
              fetched |-> r.fetched]

(***************************************************************************)
(* generateSession, after `await loadExercises()` has produced             *)
(* exerciseData: the set of its possible results, each the locals at the   *)
(* end of the run and what was returned or thrown.                         *)
(***************************************************************************)
Threw(message) == [kind |-> "threw", message |-> message]
Returned(plan) == [kind |-> "returned", plan |-> plan]

\* exerciseList.length === 0
CatalogIsEmpty_Never(exerciseList) == FALSE

CatalogIsEmpty(exerciseList) == Len(exerciseList) = 0

\* userData.equipment / userData.discomforts, [] when absent
ListField(userData, f) == IF f \in DOMAIN userData THEN userData[f] ELSE <<>>

generateSession(exerciseData, discipline, workout, userData, previousSessions) ==
    LET exerciseList ==
            IF "exercises" \in DOMAIN exerciseData THEN exerciseData.exercises ELSE <<>>
    IN  IF CatalogIsEmpty(exerciseList)
        THEN {[locals |-> [exerciseList |-> exerciseList],
               outcome |-> Threw("No exercises available")]}
        ELSE
        LET byDiscipline == filterExercisesByDiscipline(exerciseList, discipline)
            afterDiscipline ==
                IF Len(byDiscipline) = 0 THEN exerciseList ELSE byDiscipline
            byFramework == filterExercisesByFramework(afterDiscipline, workout)
            afterFramework ==
                IF Falsy(workout) THEN afterDiscipline
                ELSE IF Len(byFramework) = 0
                     THEN filterExercisesByDiscipline(exerciseList, discipline)
                     ELSE byFramework
            afterEquipment ==
                IF Len(ListField(userData, "equipment")) > 0
                THEN filterExercisesByEquipment(afterFramework, userData.equipment)
                ELSE afterFramework
            filteredExercises ==
                IF Len(ListField(userData, "discomforts")) > 0
                THEN filterExercisesByDiscomforts(afterEquipment, userData.discomforts)
                ELSE afterEquipment
        IN  IF Len(filteredExercises) = 0
            THEN {[locals |-> [exerciseList |-> exerciseList,
                               filteredExercises |-> filteredExercises],
                   outcome |-> Threw("No exercises available after filtering")]}
            ELSE
            LET warmupCandidates == filterExercisesByPhase(filteredExercises, "warmup")
                workoutCandidates == filterExercisesByPhase(filteredExercises, "workout")
                cooldownCandidates == filterExercisesByPhase(filteredExercises, "cooldown")
                warmupFrom == IF Len(warmupCandidates) > 0
                              THEN warmupCandidates ELSE filteredExercises
                workoutFrom == IF Len(workoutCandidates) > 0
                               THEN workoutCandidates ELSE filteredExercises
                cooldownFrom == IF Len(cooldownCandidates) > 0
                                THEN cooldownCandidates ELSE filteredExercises
                currentMilestones ==
                    IF "currentMilestones" \in DOMAIN userData
                    THEN userData.currentMilestones ELSE <<>>
            IN  UNION {UNION {
                  {[locals |->
                       [exerciseList |-> exerciseList,
                        filteredExercises |-> filteredExercises,
                        warmupExercises |-> warmupExercises,
                        workoutExercises |-> workoutExercises,
                        workoutMuscles |-> extractMusclesFromExercises(workoutExercises),
                        cooldownExercises |-> cooldownExercises],
                    outcome |-> Returned(
                       [discipline |-> discipline,
                        workout |-> workout,
                        phases |->
                          [warmup |-> applyProgressiveOverload(warmupExercises,
                                                               currentMilestones),
                           workout |-> applyProgressiveOverload(workoutExercises,
                                                                currentMilestones),
                           cooldown |-> applyProgressiveOverload(cooldownExercises,
                                                                 currentMilestones)]])]
                   : cooldownExercises \in
                        selectCooldownExercises(
                            cooldownFrom,
                            extractMusclesFromExercises(workoutExercises),
                            previousSessions)}
                  : workoutExercises \in
                       selectExercisesForPhase(workoutFrom, "workout", WorkoutCount,
                                               previousSessions)}
                  : warmupExercises \in
                       selectExercisesForPhase(warmupFrom, "warmup", WarmupCount,
                                               previousSessions)}

(***************************************************************************)
(* Catalogs and arguments of the session assembler.  The first five        *)
(* exercises are the test suite's mock catalog.                            *)
(***************************************************************************)
WarmupEx1 == Exercise("warmup-ex1", "Pilates",
    <<Var("warmup-var1", 2, "stability", "bilateral", <<"chest">>, <<"shoulders">>)>>)
WarmupEx2 == Exercise("warmup-ex2", "Pilates",
    <<Var("warmup-var2", 3, "mobility", "bilateral", <<"back">>, <<>>)>>)
WorkoutEx1 == Exercise("workout-ex1", "Pilates",
    <<Var("workout-var1", 5, "load", "bilateral", <<"chest">>, <<"triceps">>),
      Var("workout-var2", 6, "load", "bilateral", <<"chest">>, <<"triceps">>)>>)
WorkoutEx2 == Exercise("workout-ex2", "Pilates",
    <<Var("workout-var3", 4, "leverage", "bilateral", <<"shoulders">>, <<"chest">>)>>)
CooldownEx1 == Exercise("cooldown-ex1", "Pilates",
    <<Var("cooldown-var1", 3, "mobility", "bilateral", <<"Chest">>, <<"shoulders">>)>>)

WarmupEx3 == Exercise("warmup-ex3", "Pilates",
    <<Var("warmup-var3", 1, "stability", "bilateral", <<"quadriceps">>, <<>>)>>)
WarmupEx4 == Exercise("warmup-ex4", "Pilates",
    <<Var("warmup-var4", 2, "mobility", "bilateral", <<"Chest">>, <<>>)>>)
WorkoutEx3 == Exercise("workout-ex3", "Pilates",
    <<Var("workout-var4", 5, "load", "bilateral", <<"back">>, <<>>)>>)
WorkoutEx4 == Exercise("workout-ex4", "Pilates",
    <<Var("workout-var5", 7, "load", "unilateral", <<"Back">>, <<"biceps">>)>>)
WorkoutEx5 == Exercise("workout-ex5", "Pilates",
    <<Var("workout-var6", 4, "load", "bilateral", <<"quadriceps">>, <<>>)>>)
WorkoutEx6 == Exercise("workout-ex6", "Pilates",
    <<Var("workout-var7", 8, "load", "bilateral", <<"shoulders">>, <<>>)>>)
WeightsEx1 == Exercise("weights-ex1", "Weights",
    <<Var("weights-var1", 5, "load", "bilateral", <<"back">>, <<>>)>>)
WeightsEx2 == Exercise("weights-ex2", "Weights",
    <<Var("weights-var2", 2, "mobility", "bilateral", <<"quadriceps">>, <<>>)>>)
NoVariationsEx == Exercise("bare-ex", "Pilates", <<>>)

CatalogEmpty == <<>>
CatalogTest == <<WarmupEx1, WarmupEx2, WorkoutEx1, WorkoutEx2, CooldownEx1>>
CatalogWarm == <<WarmupEx1, WarmupEx2, WarmupEx3, WarmupEx4, WorkoutEx1>>
CatalogBig == <<WorkoutEx1, WorkoutEx2, WorkoutEx3, WorkoutEx4, WorkoutEx5,
                WorkoutEx6, CooldownEx1>>
CatalogMixed == <<NoVariationsEx, WorkoutEx1, WeightsEx1, WeightsEx2>>

Catalogs == {CatalogEmpty, CatalogTest, CatalogWarm, CatalogBig, CatalogMixed}

\* fetch() answers
Ok(data) == [kind |-> "ok", data |-> data]
Fails(kind) == [kind |-> kind]

Servers ==
    {<<Ok([exercises |-> c]), Ok([exercises |-> c]), Ok([exercises |-> c])>> :
        c \in Catalogs}
    \cup
    {<<Ok([version |-> 1]), Ok([version |-> 1]), Ok([version |-> 1])>>,
     <<Fails("http"), Ok([exercises |-> CatalogTest]), Ok([exercises |-> CatalogTest])>>,
     <<Fails("reject"), Fails("badjson"), Ok([exercises |-> CatalogTest])>>,
     <<Fails("http"), Fails("reject"), Fails("badjson")>>,
     <<Fails("reject"), Fails("reject"), Fails("reject")>>,
     <<Fails("jsonnull"), Fails("jsonnull"), Fails("jsonnull")>>}

Disciplines == {"Pilates", "Weights", "Crossfit", NoString}
Workouts == {NoString, "Push", "Legs", "Unknown"}

MilestonesSome ==
    ("workout-ex1" :> <<[id |-> "workout-var1", count |-> 3]>>) @@
    ("warmup-ex1" :> <<[id |-> "warmup-var1", count |-> 2]>>)

UserDatas ==
    {[dummy |-> TRUE],
     [equipment |-> <<>>, discomforts |-> <<>>, currentMilestones |-> MilestonesSome],
     [equipment |-> <<"mat">>, discomforts |-> <<"Back">>,
      currentMilestones |-> MilestonesSome]}

Item(id) == [exerciseId |-> id]

PreviousA ==
    [phases |-> [warmup |-> <<Item("warmup-ex1")>>,
                 workout |-> <<Item("workout-ex1")>>,
                 cooldown |-> <<>>]]
PreviousB ==
    [phases |-> [warmup |-> <<Item("warmup-ex1"), Item("warmup-ex2")>>,
                 workout |-> <<Item("workout-ex1"), Item("workout-ex2")>>,
                 cooldown |-> <<Item("cooldown-ex1")>>]]

PreviousSessionLists == {<<>>, <<PreviousB, PreviousA>>, <<PreviousA, PreviousB>>}

(***************************************************************************)
(* One generateSession call: the call is made, loadExercises is awaited,   *)
(* and the rest of the function runs to its return or throw.               *)
(***************************************************************************)
InitSession ==
    /\ heap = <<>>
    /\ profile = <<>>
    /\ call = [op |-> "none"]
    /\ updates = 0
    /\ server \in Servers
    /\ pc = "idle"
    /\ args = Null
    /\ loaded = Null
    /\ locals = Null
    /\ outcome = Null
    /\ WeeklyIdle
    /\ CacheIdle

CallGenerateSession(discipline, workout, userData, previousSessions) ==
    /\ pc = "idle"
    /\ args' = [discipline |-> discipline, workout |-> workout,
                userData |-> userData, previousSessions |-> previousSessions]
    /\ pc' = "loading"
    /\ UNCHANGED <<server, loaded, locals, outcome>>
    /\ UNCHANGED trackerVars
    /\ UNCHANGED weeklyVars
    /\ UNCHANGED cacheVars

\* `await loadExercises()` completes; a failure is rethrown to the caller
AwaitLoadExercises ==
    /\ pc = "loading"
    /\ loaded' = loadExercises(server)
    /\ IF loaded'.ok
       THEN pc' = "assembling" /\ UNCHANGED outcome
       ELSE pc' = "done" /\ outcome' = Threw(loaded'.error.message)
    /\ UNCHANGED <<server, args, locals>>
    /\ UNCHANGED trackerVars
    /\ UNCHANGED weeklyVars
    /\ UNCHANGED cacheVars

AssembleSession ==
    /\ pc = "assembling"
    /\ \E r \in generateSession(loaded.data, args.discipline, args.workout,
                                args.userData, args.previousSessions) :
          /\ locals' = r.locals
          /\ outcome' = r.outcome
    /\ pc' = "done"
    /\ UNCHANGED <<server, args, loaded>>
    /\ UNCHANGED trackerVars
    /\ UNCHANGED weeklyVars
    /\ UNCHANGED cacheVars

NextSession ==
    \/ \E discipline \in Disciplines, workout \in Workouts,
          userData \in UserDatas, previousSessions \in PreviousSessionLists :
          CallGenerateSession(discipline, workout, userData, previousSessions)
    \/ AwaitLoadExercises
    \/ AssembleSession

SpecSession == InitSession /\ [][NextSession]_vars

(***************************************************************************)
(* Notions the session claims are stated in                                *)
(***************************************************************************)
SessionDone == pc = "done"
SessionReturned == pc = "done" /\ outcome.kind = "returned"
LoadedCatalog ==
    IF "exercises" \in DOMAIN loaded.data THEN loaded.data.exercises ELSE <<>>

Elements(seq) == {seq[i] : i \in 1..Len(seq)}

\* the candidate exercises of a phase: the phase-filtered set, or the whole
\* filtered set when the phase filter is empty
PhaseCandidates(phase) ==
    LET byPhase == filterExercisesByPhase(locals.filteredExercises, phase)
    IN  IF Len(byPhase) > 0 THEN byPhase ELSE locals.filteredExercises

ExerciseOfItem(item) ==
    CHOOSE e \in Elements(locals.exerciseList) : e.id = item.exerciseId

SharesWorkoutMuscle(exercise) ==
    \E k \in 1..Len(exercise.variations) :
        Elements(MusclesOf(exercise.variations[k])) \cap locals.workoutMuscles # {}

LastSessionIds ==
    IF args.previousSessions = <<>> THEN {}
    ELSE SessionExerciseIds(args.previousSessions[Len(args.previousSessions)])

NotInLastSession(exercises) ==
    SelectSeq(exercises, LAMBDA e : e.id \notin LastSessionIds)

(***************************************************************************)
(* C5 (as stated): with a non-empty catalog and user data without          *)
(* discomforts or equipment, generateSession never fails with "No          *)
(* exercises available after filtering", whatever discipline and framework *)
(* are requested.                                                          *)
(***************************************************************************)
C5_NeverEmptyAfterFiltering ==
    (/\ SessionDone
     /\ loaded.ok
     /\ Len(LoadedCatalog) > 0
     /\ ListField(args.userData, "discomforts") = <<>>
     /\ ListField(args.userData, "equipment") = <<>>)
    => outcome # Threw("No exercises available after filtering")

(***************************************************************************)
(* C6: in every returned SessionPlan the three phases are lists, and every *)
(* item of each has an exerciseId and a variationId that are not null and  *)
(* has sets and reps equal to null.                                        *)
(***************************************************************************)
WellFormedItems(items) ==
    /\ DOMAIN items = 1..Len(items)
    /\ \A i \in 1..Len(items) :
          /\ items[i] # Null
          /\ items[i].exerciseId # NoString
          /\ items[i].variationId # NoString
          /\ items[i].sets = Null
          /\ items[i].reps = Null

C6_PlanShape ==
    SessionReturned =>
        /\ DOMAIN outcome.plan.phases = {"warmup", "workout", "cooldown"}
        /\ WellFormedItems(outcome.plan.phases.warmup)
        /\ WellFormedItems(outcome.plan.phases.workout)
        /\ WellFormedItems(outcome.plan.phases.cooldown)

\* a selected exercise without variations was dropped from the warm-up
C6_Witness ==
    /\ SessionReturned
    /\ NoVariationsEx \in Elements(locals.warmupExercises)
    /\ Len(outcome.plan.phases.warmup) = Len(locals.warmupExercises) - 1
    /\ Len(outcome.plan.phases.warmup) > 0

(***************************************************************************)
(* C7: when the loaded catalog has no exercises the call fails with "No    *)
(* exercises available"; when no path can be loaded the call fails with    *)
(* loadExercises' error; in neither case is a SessionPlan returned.        *)
(***************************************************************************)
C7_EmptyOrUnloadableFails ==
    SessionDone =>
        /\ (loaded.ok /\ Len(LoadedCatalog) = 0)
               => outcome = Threw("No exercises available")
        /\ ~loaded.ok
               => /\ outcome = Threw("Failed to load exercises")
                  /\ locals = Null

\* both failures happen: an empty catalog was served, or every path failed
C7_Witness ==
    /\ SessionDone
    /\ \/ loaded.ok /\ Len(LoadedCatalog) = 0 /\ outcome.kind = "threw"
       \/ ~loaded.ok /\ loaded.fetched = 3 /\ outcome.kind = "threw"

(***************************************************************************)
(* C8 (as stated): in every returned SessionPlan each cooldown item's      *)
(* exercise shares a target muscle with the exercises selected for the     *)
(* workout phase.                                                          *)
(***************************************************************************)
C8_AsClaimed ==
    SessionReturned =>
        \A i \in 1..Len(outcome.plan.phases.cooldown) :
            SharesWorkoutMuscle(ExerciseOfItem(outcome.plan.phases.cooldown[i]))

(***************************************************************************)
(* C8 (amended): when at least one cooldown candidate shares a target      *)
(* muscle with the workout selection, every cooldown item's exercise does; *)
(* when none does, the cooldown items are drawn from all the cooldown      *)
(* candidates.  The workout muscles are those of the selection made        *)
(* before.                                                                 *)
(***************************************************************************)
C8_CooldownLinkedToWorkout ==
    SessionReturned =>
        LET candidates == PhaseCandidates("cooldown")
            items == outcome.plan.phases.cooldown
        IN  /\ locals.workoutMuscles =
                   extractMusclesFromExercises(locals.workoutExercises)
            /\ \A i \in 1..Len(items) :
                   /\ ExerciseOfItem(items[i]) \in Elements(candidates)
                   /\ (\E e \in Elements(candidates) : SharesWorkoutMuscle(e))
                          => SharesWorkoutMuscle(ExerciseOfItem(items[i]))

\* a cooldown item was chosen while another candidate shared no muscle
C8_Witness ==
    /\ SessionReturned
    /\ Len(outcome.plan.phases.cooldown) > 0
    /\ \E e \in Elements(PhaseCandidates("cooldown")) : ~SharesWorkoutMuscle(e)
    /\ \E e \in Elements(PhaseCandidates("cooldown")) : SharesWorkoutMuscle(e)

(***************************************************************************)
(* C9 (as stated): in each phase (warm-up 3, workout 5, cooldown 3) the    *)
(* selection is made from the candidates that are not in the most recent   *)
(* previous session, or from all the candidates when fewer than the        *)
(* phase's number remain; so with that many candidates absent from the     *)
(* previous session nothing selected repeats it.  For the cooldown the     *)
(* candidates are those linked to the workout (all of them when none is).  *)
(***************************************************************************)
SelectedAsClaimed(selected, preVariety, n) ==
    LET remaining == NotInLastSession(preVariety)
        pool == IF Len(remaining) < n THEN preVariety ELSE remaining
    IN  /\ Elements(selected) \subseteq Elements(pool)
        /\ Len(selected) = Min(n, Len(pool))
        /\ Len(remaining) >= n
               => \A e \in Elements(selected) : e.id \notin LastSessionIds

CooldownPreVariety ==
    LET matching == SelectSeq(PhaseCandidates("cooldown"), SharesWorkoutMuscle)
    IN  IF Len(matching) > 0 THEN matching ELSE PhaseCandidates("cooldown")

C9_VarietyWithRevert ==
    SessionReturned =>
        /\ SelectedAsClaimed(locals.warmupExercises,
                             PhaseCandidates("warmup"), WarmupCount)
        /\ SelectedAsClaimed(locals.workoutExercises,
                             PhaseCandidates("workout"), WorkoutCount)
        /\ SelectedAsClaimed(locals.cooldownExercises,
                             CooldownPreVariety, CooldownCount)

(***************************************************************************)
(* C10: a returned plan has at most 3 warm-up, 5 workout and 3 cooldown    *)
(* items; when every candidate of the phase has a variation the warm-up    *)
(* has exactly min(3, c) and the workout exactly min(5, c) items, c being  *)
(* the number of candidates of the phase.                                  *)
(***************************************************************************)
AllHaveVariations(exercises) ==
    \A e \in Elements(exercises) : Len(e.variations) >= 1

C10_PhaseSizes ==
    SessionReturned =>
        LET phases == outcome.plan.phases
            warm == PhaseCandidates("warmup")
            work == PhaseCandidates("workout")
        IN  /\ Len(phases.warmup) <= WarmupCount
            /\ Len(phases.workout) <= WorkoutCount
            /\ Len(phases.cooldown) <= CooldownCount
            /\ AllHaveVariations(warm)
                   => Len(phases.warmup) = Min(WarmupCount, Len(warm))
            /\ AllHaveVariations(work)
                   => Len(phases.workout) = Min(WorkoutCount, Len(work))

\* five of six workout candidates were taken
C10_Witness ==
    /\ SessionReturned
    /\ Len(PhaseCandidates("workout")) = 6
    /\ AllHaveVariations(PhaseCandidates("workout"))
    /\ Len(outcome.plan.phases.workout) = WorkoutCount

(***************************************************************************)
(* Weekly system generation                                                *)
(***************************************************************************)
MaxDays == 4        \* largest daysPerWeek a caller asks for
MaxSystems == 2     \* WeeklySystems generated in one behaviour
MaxElapsed == 1     \* milliseconds that pass between two clock readings

distributeFrameworksAcrossWeek_AllByParity(framework, daysPerWeek) ==
    [d \in 1..daysPerWeek |->
        LET i == d - 1
        IN  CASE framework = "Push/Pull" -> IF i % 2 = 0 THEN "Push" ELSE "Pull"
              [] framework = "Upper/Lower" -> IF i % 2 = 0 THEN "Upper" ELSE "Lower"
              [] framework = "Chest/Back/Legs" -> <<"Chest", "Back", "Legs">>[(i % 2) + 1]
              [] framework = "Push/Pull/Legs" -> <<"Push", "Pull", "Legs">>[(i % 2) + 1]
              [] OTHER -> framework]

\* assignments[d] is the code's assignments[i] for i = d - 1
distributeFrameworksAcrossWeek(framework, daysPerWeek) ==
    [d \in 1..daysPerWeek |->
        LET i == d - 1
        IN  CASE framework = "Push/Pull" -> IF i % 2 = 0 THEN "Push" ELSE "Pull"
              [] framework = "Upper/Lower" -> IF i % 2 = 0 THEN "Upper" ELSE "Lower"
              [] framework = "Chest/Back/Legs" -> <<"Chest", "Back", "Legs">>[(i % 3) + 1]
              [] framework = "Push/Pull/Legs" -> <<"Push", "Pull", "Legs">>[(i % 3) + 1]
              [] framework = "Full Body" -> "Full Body"
              [] OTHER -> framework]

\* Math.min(...Object.values(disciplineCounts))
MinCount(disciplineCounts) ==
    CHOOSE c \in {disciplineCounts[d] : d \in DOMAIN disciplineCounts} :
        \A d \in DOMAIN disciplineCounts : c <= disciplineCounts[d]

FindLeastUsed_MostUsed(disciplines, disciplineCounts, minCount) ==
    disciplines[CHOOSE k \in 1..Len(disciplines) :
                   \A j \in 1..Len(disciplines) :
                       disciplineCounts[disciplines[j]]
                           <= disciplineCounts[disciplines[k]]]

\* disciplines.find(d => disciplineCounts[d] === minCount)
FindLeastUsed(disciplines, disciplineCounts, minCount) ==
    disciplines[CHOOSE k \in 1..Len(disciplines) :
                   /\ disciplineCounts[disciplines[k]] = minCount
                   /\ \A j \in 1..(k - 1) :
                          disciplineCounts[disciplines[j]] # minCount]

\* the loop of balanceDisciplinesAcrossWeek from iteration i on
RECURSIVE BalanceLoop(_, _, _, _, _)
BalanceLoop(disciplines, daysPerWeek, i, assignments, disciplineCounts) ==
    IF ~(i < daysPerWeek) THEN assignments
    ELSE LET minCount == MinCount(disciplineCounts)
             leastUsed == FindLeastUsed(disciplines, disciplineCounts, minCount)
         IN  BalanceLoop(disciplines, daysPerWeek, i + 1,
                         Append(assignments, leastUsed),
                         [disciplineCounts EXCEPT ![leastUsed] = @ + 1])

balanceDisciplinesAcrossWeek(disciplines, daysPerWeek) ==
    IF disciplines = <<>> THEN [d \in 1..daysPerWeek |-> NoString]
    ELSE BalanceLoop(disciplines, daysPerWeek, 0, <<>>,
                     [d \in {disciplines[k] : k \in 1..Len(disciplines)} |-> 0])

(***************************************************************************)
(* What the generation writes to the milestone objects it is handed.       *)
(* generateWeeklySystem passes userProfile.currentMilestones itself (no    *)
(* copy) to every generateSession call, which hands it to                  *)
(* selectVariationForUser for each selected exercise; that function and    *)
(* getCurrentVariation only read it.  Each operator gives the heap after   *)
(* the call.                                                               *)
(***************************************************************************)
selectVariationForUserHeap_Records(exercise, m, h) ==
    LET variation == selectVariationForUser(exercise, View(m, h))
    IN  IF variation = Null THEN h
        ELSE updateMilestone(exercise.id, variation.id, m, h).heap

selectVariationForUserHeap(exercise, m, h) == h

RECURSIVE applyProgressiveOverloadHeap(_, _, _)
applyProgressiveOverloadHeap(exercises, m, h) ==
    IF exercises = <<>> THEN h
    ELSE applyProgressiveOverloadHeap(
             Tail(exercises), m,
             selectVariationForUserHeap(Head(exercises), m, h))

\* the heap after a generateSession run whose locals are `l`
generateSessionHeap(l, m, h) ==
    IF "cooldownExercises" \notin DOMAIN l THEN h
    ELSE applyProgressiveOverloadHeap(
             l.cooldownExercises, m,
             applyProgressiveOverloadHeap(
                 l.workoutExercises, m,
                 applyProgressiveOverloadHeap(l.warmupExercises, m, h)))

(***************************************************************************)
(* generateWeeklySystem                                                    *)
(***************************************************************************)
\* constants.js (not part of the sources at hand)
DEFAULT_WEEKLY_CONFIG ==
    [daysPerWeek |-> 3, framework |-> "Push/Pull", startDate |-> "today"]

DISCIPLINE_PILATES == "Pilates"

\* { ...DEFAULT_WEEKLY_CONFIG, ...config }
MergeConfig(config) == config @@ DEFAULT_WEEKLY_CONFIG

\* `weekly-system-${Date.now()}`
SystemId(stamp) == [prefix |-> "weekly-system-", stamp |-> stamp]

\* sessions.slice(-2)
LastTwo(sessions) ==
    IF Len(sessions) <= 2 THEN sessions
    ELSE SubSeq(sessions, Len(sessions) - 1, Len(sessions))

\* the exercises of the weekly generator's catalogs (test suite's mocks)
WeekEx1 == Exercise("ex1", "Pilates",
    <<Var("var1", 5, "load", "bilateral", <<"chest">>, <<"shoulders">>)>>)
WeekEx3 == Exercise("ex3", "Animal Flow",
    <<Var("var3", 4, "load", "bilateral", <<"chest">>, <<>>)>>)

CatalogWeek == <<WeekEx1, WeekEx3>>
CatalogPilates == <<WeekEx1>>

WeekServers ==
    {<<Ok([exercises |-> CatalogWeek]), Ok([exercises |-> CatalogWeek]),
       Ok([exercises |-> CatalogWeek])>>,
     <<Fails("http"), Ok([exercises |-> CatalogPilates]),
       Ok([exercises |-> CatalogPilates])>>,
     <<Ok([exercises |-> CatalogEmpty]), Ok([exercises |-> CatalogEmpty]),
       Ok([exercises |-> CatalogEmpty])>>,
     <<Fails("reject"), Fails("reject"), Fails("reject")>>}

UserProfiles ==
    {[name |-> "athlete"],
     [preferredDisciplines |-> <<"Pilates">>, discomforts |-> <<"Back">>,
      equipment |-> <<"mat">>],
     [preferredDisciplines |-> <<"Pilates", "Animal Flow">>],
     [preferredDisciplines |-> <<"Animal Flow", "Yoga", "Pilates">>],
     [preferredDisciplines |-> <<"Yoga">>],
     [preferredDisciplines |-> <<"Pilates">>, discomforts |-> <<"Chest">>]}

Frameworks == {"Push/Pull", "Upper/Lower", "Chest/Back/Legs", "Push/Pull/Legs",
               "Full Body", "Cardio"}

WeeklyConfigs ==
    {<<>>, [daysPerWeek |-> MaxDays]}
    \cup {[daysPerWeek |-> d, framework |-> f] :
             d \in 0..MaxDays, f \in Frameworks}

\* the milestone maps a profile starts with
WeekMilestones ==
    {<<>>,
     <<[id |-> "var1", count |-> 1]>>,
     <<[id |-> "var1", count |-> 3]>>}

InitWeekly ==
    /\ server \in WeekServers
    /\ \E obj \in WeekMilestones :
          IF obj = <<>> THEN heap = <<>> /\ profile = <<>>
          ELSE heap = <<obj>> /\ profile = ("ex1" :> 1)
    /\ call = [op |-> "none"]
    /\ updates = 0
    /\ pc = "idle"
    /\ args = Null
    /\ loaded = Null
    /\ locals = Null
    /\ outcome = Null
    /\ WeeklyIdle
    /\ CacheIdle

\* userProfile.preferredDisciplines || [TERMINOLOGY.DISCIPLINE_PILATES]
PreferredDisciplines(userProfile) ==
    IF "preferredDisciplines" \in DOMAIN userProfile
    THEN userProfile.preferredDisciplines ELSE <<DISCIPLINE_PILATES>>

CallGenerateWeeklySystem(userProfile, config) ==
    /\ pc \in {"idle", "done"}
    /\ Len(systemIds) < MaxSystems
    /\ args' = [userProfile |-> userProfile, config |-> config]
    /\ call' = [op |-> "generateWeeklySystem", before |-> View(profile, heap)]
    /\ pc' = "weekly-loading"
    /\ loaded' = Null
    /\ locals' = Null
    /\ outcome' = Null
    /\ UNCHANGED <<heap, profile, updates, server, now, systemIds>>
    /\ UNCHANGED cacheVars

\* from `await loadExercises()` to the start of the per-day loop
WeeklyLoadAndFilter ==
    /\ pc = "weekly-loading"
    /\ loaded' = loadExercises(server)
    /\ IF ~loaded'.ok
       THEN /\ outcome' = Threw(loaded'.error.message)
            /\ pc' = "done"
            /\ UNCHANGED locals
       ELSE
       LET finalConfig == MergeConfig(args.config)
           exerciseList == IF "exercises" \in DOMAIN loaded'.data
                           THEN loaded'.data.exercises ELSE <<>>
           preferredDisciplines == PreferredDisciplines(args.userProfile)
           byDiscipline ==
               filterExercisesByDisciplineArray(exerciseList, preferredDisciplines)
           equipment == ListField(args.userProfile, "equipment")
           discomforts == ListField(args.userProfile, "discomforts")
           afterEquipment ==
               IF Len(equipment) > 0
               THEN filterExercisesByEquipment(byDiscipline, equipment)
               ELSE byDiscipline
           filteredExercises ==
               IF Len(discomforts) > 0
               THEN filterExercisesByDiscomforts(afterEquipment, discomforts)
               ELSE afterEquipment
       IN  IF Len(exerciseList) = 0
           THEN /\ outcome' = Threw("No exercises found in exercises.json")
                /\ pc' = "done"
                /\ UNCHANGED locals
           ELSE IF Len(byDiscipline) = 0
           THEN /\ outcome' = Threw("No exercises found for disciplines")
                /\ pc' = "done"
                /\ UNCHANGED locals
           ELSE IF Len(filteredExercises) = 0
           THEN /\ outcome' = Threw("No exercises available after filtering. Try adjusting your preferences.")
                /\ pc' = "done"
                /\ UNCHANGED locals
           ELSE /\ locals' =
                     [daysPerWeek |-> finalConfig.daysPerWeek,
                      framework |-> finalConfig.framework,
                      startDate |-> finalConfig.startDate,
                      preferredDisciplines |-> preferredDisciplines,
                      frameworkAssignments |->
                          distributeFrameworksAcrossWeek(finalConfig.framework,
                                                         finalConfig.daysPerWeek),
                      disciplineAssignments |->
                          balanceDisciplinesAcrossWeek(preferredDisciplines,
                                                       finalConfig.daysPerWeek),
                      sessions |-> <<>>,
                      milestonesSeen |-> <<>>]
                /\ pc' = "weekly-days"
                /\ UNCHANGED outcome
    /\ UNCHANGED <<heap, profile, call, updates, server, args, now, systemIds>>
    /\ UNCHANGED cacheVars

\* one iteration of the per-day loop: generateSession loads the catalog
\* again, assembles the day's plan, and the plan is wrapped and pushed
GenerateDaySession ==
    /\ pc = "weekly-days"
    /\ Len(locals.sessions) < locals.daysPerWeek
    /\ LET day == Len(locals.sessions)
           sessionDiscipline == locals.disciplineAssignments[day + 1]
           sessionWorkout == locals.frameworkAssignments[day + 1]
           previousSessions == LastTwo(locals.sessions)
           currentMilestones == View(profile, heap)
           userData == [currentMilestones |-> currentMilestones]
                          @@ args.userProfile
           exercises == loadExercises(server)
       IN  IF ~exercises.ok
           THEN /\ outcome' = Threw(exercises.error.message)
                /\ pc' = "done"
                /\ UNCHANGED <<locals, heap>>
           ELSE \E r \in generateSession(exercises.data, sessionDiscipline,
                                         sessionWorkout, userData,
                                         previousSessions) :
                  /\ heap' = generateSessionHeap(r.locals, profile, heap)
                  /\ IF r.outcome.kind = "threw"
                     THEN /\ outcome' = r.outcome
                          /\ pc' = "done"
                          /\ UNCHANGED locals
                     ELSE /\ locals' =
                               [locals EXCEPT
                                  !.sessions =
                                      Append(@, [day |-> day + 1,
                                                 date |-> [startDate |-> locals.startDate,
                                                           plusDays |-> day],
                                                 discipline |-> sessionDiscipline,
                                                 workout |-> sessionWorkout,
                                                 phases |-> r.outcome.plan.phases,
                                                 editable |-> TRUE]),
                                  !.milestonesSeen = Append(@, currentMilestones)]
                          /\ UNCHANGED <<pc, outcome>>
    /\ UNCHANGED <<profile, call, updates, server, args, loaded, now, systemIds>>
    /\ UNCHANGED cacheVars

\* after the loop: the id is made from the clock and the system is returned
AssembleWeeklySystem ==
    /\ pc = "weekly-days"
    /\ ~(Len(locals.sessions) < locals.daysPerWeek)
    /\ \E elapsed \in 0..MaxElapsed :
          /\ now' = now + elapsed
          /\ outcome' = [kind |-> "returned",
                         system |-> [id |-> SystemId(now'),
                                     type |-> "weekly",
                                     startDate |-> locals.startDate,
                                     daysPerWeek |-> locals.daysPerWeek,
                                     framework |-> locals.framework,
                                     sessions |-> locals.sessions,
                                     editable |-> TRUE,
                                     createdAt |-> now']]
          /\ systemIds' = Append(systemIds, SystemId(now'))
    /\ pc' = "done"
    /\ UNCHANGED <<heap, profile, call, updates, server, args, loaded, locals>>
    /\ UNCHANGED cacheVars

NextWeekly ==
    \/ \E userProfile \in UserProfiles, config \in WeeklyConfigs :
          CallGenerateWeeklySystem(userProfile, config)
    \/ WeeklyLoadAndFilter
    \/ GenerateDaySession
    \/ AssembleWeeklySystem

SpecWeekly == InitWeekly /\ [][NextWeekly]_vars

(***************************************************************************)
(* Notions the weekly claims are stated in                                 *)
(***************************************************************************)
WeeklyReturned == pc = "done" /\ outcome.kind = "returned" /\ "system" \in DOMAIN outcome

\* the framework part of day index i (0-based) under the fixed rule
ExpectedWorkout(framework, i) ==
    IF framework \in {"Push/Pull", "Upper/Lower"}
    THEN SplitFramework(framework)[(i % 2) + 1]
    ELSE IF framework \in {"Chest/Back/Legs", "Push/Pull/Legs"}
    THEN SplitFramework(framework)[(i % 3) + 1]
    ELSE framework

(***************************************************************************)
(* C11: a returned WeeklySystem has exactly daysPerWeek sessions, in day   *)
(* order with sessions[i].day = i + 1, and sessions[i].workout is the      *)
(* framework's part for day i: two-part frameworks alternate by parity,    *)
(* three-part frameworks cycle by i mod 3, any other framework string is   *)
(* used as it is.                                                          *)
(***************************************************************************)
C11_SessionsFollowFramework ==
    WeeklyReturned =>
        LET system == outcome.system
            requested == MergeConfig(args.config)
        IN  /\ system.daysPerWeek = requested.daysPerWeek
            /\ system.framework = requested.framework
            /\ Len(system.sessions) = requested.daysPerWeek
            /\ \A d \in 1..Len(system.sessions) :
                   /\ system.sessions[d].day = d
                   /\ system.sessions[d].workout =
                          ExpectedWorkout(requested.framework, d - 1)

\* a three-part framework has wrapped around on the fourth day
C11_Witness ==
    /\ WeeklyReturned
    /\ outcome.system.framework = "Push/Pull/Legs"
    /\ Len(outcome.system.sessions) = 4
    /\ outcome.system.sessions[3].workout = "Legs"
    /\ outcome.system.sessions[4].workout = "Push"

(***************************************************************************)
(* C12: the per-day discipline assignment has length daysPerWeek; each     *)
(* day gets the preferred discipline with the fewest assignments so far,   *)
(* the earliest in the preferred list on ties; so after any number of days *)
(* the counts of any two preferred disciplines differ by at most 1, and    *)
(* each session's discipline is one of the preferred disciplines.          *)
(***************************************************************************)
WeeklyAssigned == pc \in {"weekly-days", "done"} /\ locals # Null

\* how many of the first n days were given discipline d
AssignedCount(assignments, n, d) ==
    Cardinality({k \in 1..n : assignments[k] = d})

C12_DisciplinesBalanced ==
    WeeklyAssigned =>
        LET preferred == locals.preferredDisciplines
            assignments == locals.disciplineAssignments
            names == Elements(preferred)
        IN  /\ Len(assignments) = locals.daysPerWeek
            /\ DOMAIN assignments = 1..locals.daysPerWeek
            /\ \A k \in 1..Len(assignments) :
                   \E p \in 1..Len(preferred) :
                       /\ assignments[k] = preferred[p]
                       /\ \A d \in names :
                              AssignedCount(assignments, k - 1, preferred[p])
                                  <= AssignedCount(assignments, k - 1, d)
                       /\ \A q \in 1..(p - 1) :
                              AssignedCount(assignments, k - 1, preferred[q])
                                  > AssignedCount(assignments, k - 1, preferred[p])
            /\ \A n \in 0..Len(assignments) : \A a, b \in names :
                   AssignedCount(assignments, n, a)
                       <= AssignedCount(assignments, n, b) + 1
            /\ \A d \in 1..Len(locals.sessions) :
                   /\ locals.sessions[d].discipline = assignments[d]
                   /\ locals.sessions[d].discipline \in names

\* four days over two preferred disciplines, generated to the end
C12_Witness ==
    /\ WeeklyReturned
    /\ locals.preferredDisciplines = <<"Pilates", "Animal Flow">>
    /\ Len(outcome.system.sessions) = 4
    /\ [d \in 1..4 |-> outcome.system.sessions[d].discipline]
           = <<"Pilates", "Animal Flow", "Pilates", "Animal Flow">>

(***************************************************************************)
(* C13: generateWeeklySystem and the generateSession calls it makes never  *)
(* modify the milestone map: at every point of a generation the profile's  *)
(* map reads as it did when the call was made, and every day was generated *)
(* against that same map.                                                  *)
(***************************************************************************)
C13_MilestonesUntouched ==
    call.op = "generateWeeklySystem" =>
        /\ View(profile, heap) = call.before
        /\ locals # Null =>
               \A d \in 1..Len(locals.milestonesSeen) :
                   locals.milestonesSeen[d] = call.before

\* two days were generated for a profile with a recorded milestone of an
\* exercise that both sessions use
C13_Witness ==
    /\ WeeklyReturned
    /\ call.before = ("ex1" :> <<[id |-> "var1", count |-> 1]>>)
    /\ Len(outcome.system.sessions) >= 2
    /\ \A d \in 1..2 :
          \E i \in 1..Len(outcome.system.sessions[d].phases.workout) :
              outcome.system.sessions[d].phases.workout[i].exerciseId = "ex1"

(***************************************************************************)
(* C14 (as stated): any two WeeklySystems returned by separate             *)
(* generateWeeklySystem calls have different ids, however close in time    *)
(* the calls complete.                                                     *)
(***************************************************************************)
C14_IdsUnique ==
    \A i, j \in 1..Len(systemIds) : systemIds[i] = systemIds[j] => i = j

(***************************************************************************)
(* Pure calls on a catalog: Init draws a list of exercises, the actions    *)
(* apply one filter, or getNextVariation, to it.                           *)
(***************************************************************************)
MaxListLen == 2     \* exercises in a list handed to a filter

F1 == Exercise("f1", "Pilates",
    <<Var("f1-a", 5, "load", "bilateral", <<"Chest">>, <<"triceps">>),
      Var("f1-b", 2, "mobility", "bilateral", <<"chest">>, <<>>),
      Var("f1-c", 5, "load", "unilateral", <<"Shoulders">>, <<>>)>>)
F2 == Exercise("f2", "Weights",
    <<Var("f2-a", 4, "leverage", "bilateral", <<"back">>, <<"Quadriceps">>)>>)
F3 == Exercise("f3", "Pilates",
    <<Var("f3-b", 3, "flexibility", "bilateral", <<"quadriceps">>, <<"back">>),
      Unscored(Var("f3-a", 0, "stability", "unilateral", <<"Glutes">>, <<>>))>>)
F4 == Exercise("f4", NoString, <<>>)
F5 == Exercise("f5", "Animal Flow",
    <<Var("f5-a", 2, "load", "unilateral", <<"Biceps">>, <<"Chest">>),
      Var("f5-b", 3, "load", "bilateral", <<"biceps">>, <<>>)>>)

FilterPool == {F1, F2, F3, F4, F5}

ExerciseLists ==
    UNION {[1..n -> FilterPool] : n \in 0..MaxListLen}

DisciplineCriteria == {NoString, "", "Pilates", "Weights", "Yoga"}
DisciplineArrays == {<<>>, <<"Pilates">>, <<"Weights", "Pilates">>, <<"Yoga">>,
                     <<"Yoga", "Animal Flow">>}
FrameworkCriteria == {NoString, "", "Push", "Legs", "Push/Pull", "Push/Pull/Legs",
                      "Push / Legs", "Upper/Lower", "Cardio", "Cardio/Legs",
                      "Cardio/Core"}
PhaseCriteria == {NoString, "", "warmup", "workout", "cooldown", "Warmup",
                  "WORKOUT", "Cooldown", "stretch", "main"}
DiscomfortLists == {<<>>, <<"Back">>, <<"CHEST">>, <<"quadriceps", "glutes">>,
                    <<"QUADRICEPS">>, <<"knee">>}
VariationIds == {"f1-a", "f1-b", "f1-c", "f2-a", "f3-a", "f3-b", "f5-a", "f5-b",
                 "none"}

InitCatalog ==
    /\ SessionIdle
    /\ WeeklyIdle
    /\ CacheIdle
    /\ heap = <<>>
    /\ profile = <<>>
    /\ updates = 0
    /\ \E exercises \in ExerciseLists :
          call = [op |-> "input", exercises |-> exercises]

\* one call of a function on the drawn list, with its argument and result
Applied(op, criterion, result) ==
    /\ call' = [op |-> op, exercises |-> call.exercises,
                criterion |-> criterion, result |-> result]
    /\ UNCHANGED <<heap, profile, updates>>
    /\ UNCHANGED sessionVars
    /\ UNCHANGED weeklyVars
    /\ UNCHANGED cacheVars

FilterByDisciplineCall(disciplines) ==
    /\ call.op = "input"
    /\ Applied("filterExercisesByDiscipline", [scalar |-> disciplines],
               filterExercisesByDiscipline(call.exercises, disciplines))

FilterByDisciplineArrayCall(disciplines) ==
    /\ call.op = "input"
    /\ Applied("filterExercisesByDiscipline", [array |-> disciplines],
               filterExercisesByDisciplineArray(call.exercises, disciplines))

FilterByFrameworkCall(framework) ==
    /\ call.op = "input"
    /\ Applied("filterExercisesByFramework", framework,
               filterExercisesByFramework(call.exercises, framework))

FilterByPhaseCall(phase) ==
    /\ call.op = "input"
    /\ Applied("filterExercisesByPhase", phase,
               filterExercisesByPhase(call.exercises, phase))

FilterByDiscomfortsCall(discomforts) ==
    /\ call.op = "input"
    /\ Applied("filterExercisesByDiscomforts", discomforts,
               filterExercisesByDiscomforts(call.exercises, discomforts))

GetNextVariationCall(k, currentVariationId) ==
    /\ call.op = "input"
    /\ k \in 1..Len(call.exercises)
    /\ Applied("getNextVariation",
               [exercise |-> call.exercises[k],
                currentVariationId |-> currentVariationId],
               getNextVariation(call.exercises[k], currentVariationId))

\* getVariationsForExercise(exercise): the sort works on the copy
\* [...exercise.variations], so the exercise is after the call what it was
GetVariationsForExerciseCall(k) ==
    /\ call.op = "input"
    /\ k \in 1..Len(call.exercises)
    /\ LET exercise == call.exercises[k]
       IN  Applied("getVariationsForExercise", [exercise |-> exercise],
                   [returned |-> getVariationsForExercise(exercise),
                    exercise |-> exercise])

(***************************************************************************)
(* findAlternativeVariation.  currentVariation is a variation's fields     *)
(* together with the exerciseId of its exercise.  A score                  *)
(* similarityScore * 10 + biomechanicalDiff is kept as the fraction        *)
(* num / den with den = totalMuscles, and two scores are compared by       *)
(* cross-multiplication.                                                   *)
(***************************************************************************)
\* the top 3 of the sorted alternatives are returned
TopAlternatives == 3

CurrentOf(exerciseId, variation) == [exerciseId |-> exerciseId] @@ variation

\* new Set([...primary, ...secondary].map(m => m.toLowerCase()))
MuscleSet(variation) == Elements(MusclesOf(variation))

\* the nested loops `for (const exercise of allExercises)`,
\* `for (const variation of exercise.variations)`, in iteration order,
\* without the exercises skipped for being the current one
RECURSIVE VariationsInOrder(_, _)
VariationsInOrder(allExercises, currentExerciseId) ==
    IF allExercises = <<>> THEN <<>>
    ELSE LET n == Len(allExercises)
             exercise == allExercises[n]
             front == VariationsInOrder(SubSeq(allExercises, 1, n - 1),
                                        currentExerciseId)
         IN  IF exercise.id = currentExerciseId THEN front
             ELSE front \o [j \in 1..Len(exercise.variations) |->
                               [exercise |-> exercise,
                                variation |-> exercise.variations[j]]]

\* similarityScore < 0.5 is false
SimilarEnough_AnyShared(overlap, totalMuscles) == overlap > 0

SimilarEnough(overlap, totalMuscles) == 2 * overlap >= totalMuscles

\* the three `continue` tests on the difficulty
DifficultyFitsPhase(difficulty, phaseType) ==
    IF PhaseKey(phaseType) \notin DOMAIN PHASE_CRITERIA THEN TRUE
    ELSE LET criteria == PHASE_CRITERIA[PhaseKey(phaseType)]
         IN  CASE phaseType = "warmup" -> difficulty <= criteria.maxDifficulty
               [] phaseType = "workout" ->
                      /\ difficulty >= criteria.minDifficulty
                      /\ difficulty <= criteria.maxDifficulty
               [] phaseType = "cooldown" -> difficulty <= criteria.maxDifficulty
               [] OTHER -> TRUE

\* biomechanicalDiff.  Math.abs(variation.difficulty_score - currentDifficulty)
\* is NaN for a variation without a difficulty_score, and NaN > 0 is false.
BiomechanicalDiff(variation, currentVariation) ==
    LET currentDifficulty == Score(currentVariation)
        currentBilaterality == IF Falsy(currentVariation.bilaterality)
                               THEN "bilateral" ELSE currentVariation.bilaterality
        currentProgressionType == IF Falsy(currentVariation.progression_type)
                                  THEN "" ELSE currentVariation.progression_type
    IN  (IF variation.bilaterality # currentBilaterality THEN 2 ELSE 0)
        + (IF variation.progression_type # currentProgressionType THEN 1 ELSE 0)
        + (IF /\ "difficulty_score" \in DOMAIN variation
              /\ variation.difficulty_score # currentDifficulty
           THEN 1 ELSE 0)

\* alternatives.sort((a, b) => b._swapScore - a._swapScore): stable,
\* descending
RECURSIVE InsertBySwapScore(_, _)
InsertBySwapScore(sorted, a) ==
    IF sorted = <<>> THEN <<a>>
    ELSE LET last == sorted[Len(sorted)]
         IN  IF last.num * a.den >= a.num * last.den THEN Append(sorted, a)
             ELSE Append(InsertBySwapScore(SubSeq(sorted, 1, Len(sorted) - 1), a),
                         last)

RECURSIVE SortBySwapScore(_)
SortBySwapScore(s) ==
    IF s = <<>> THEN <<>>
    ELSE InsertBySwapScore(SortBySwapScore(SubSeq(s, 1, Len(s) - 1)), s[Len(s)])

\* the result: what was returned, or the TypeError of phaseType.toUpperCase()
\* on a null phaseType, reached with the first variation that passes the
\* overlap test
findAlternativeVariation(currentVariation, allExercises, phaseType) ==
    IF currentVariation = Null \/ Len(allExercises) = 0 THEN Returned(<<>>)
    ELSE IF MuscleSet(currentVariation) = {} THEN Returned(<<>>)
    ELSE
    LET currentMuscles == MuscleSet(currentVariation)
        Overlap(variation) ==
            Cardinality(currentMuscles \cap MuscleSet(variation))
        TotalMuscles(variation) ==
            IF Cardinality(currentMuscles) >= Cardinality(MuscleSet(variation))
            THEN Cardinality(currentMuscles)
            ELSE Cardinality(MuscleSet(variation))
        visited == VariationsInOrder(allExercises, currentVariation.exerciseId)
        similar == SelectSeq(visited,
                             LAMBDA c : SimilarEnough(Overlap(c.variation),
                                                      TotalMuscles(c.variation)))
        fitting == SelectSeq(similar,
                             LAMBDA c : DifficultyFitsPhase(Score(c.variation),
                                                            phaseType))
        alternatives ==
            [i \in 1..Len(fitting) |->
                [item |-> PlanItem(fitting[i].exercise, fitting[i].variation),
                 num |-> 10 * Overlap(fitting[i].variation)
                         + BiomechanicalDiff(fitting[i].variation, currentVariation)
                           * TotalMuscles(fitting[i].variation),
                 den |-> TotalMuscles(fitting[i].variation)]]
        sorted == SortBySwapScore(alternatives)
    IN  IF phaseType = NoString /\ Len(similar) > 0 THEN Threw("TypeError")
        ELSE Returned([i \in 1..Min(Len(sorted), TopAlternatives) |->
                          sorted[i].item])

\* current variations handed to findAlternativeVariation
CurrentVariations ==
    {Null,
     CurrentOf("f1", F1.variations[1]),
     CurrentOf("f5", F5.variations[1]),
     CurrentOf("f3", F3.variations[2]),
     CurrentOf("x1", Var("x1-a", 2, "load", "bilateral", <<"Chest">>, <<"Biceps">>)),
     CurrentOf("x2", Var("x2-a", 5, "stability", "unilateral",
                         <<"Glutes">>, <<"shoulders">>)),
     CurrentOf("x3", Var("x3-a", 4, NoString, NoString, <<>>, <<>>)),
     CurrentOf("x4", Var("x4-a", 3, "load", "bilateral",
                         <<"Chest", "Back">>, <<"glutes">>))}

\* the catalog is read only: allExercises is after the call what it was
FindAlternativeVariationCall(currentVariation, phaseType) ==
    /\ call.op = "input"
    /\ Applied("findAlternativeVariation",
               [currentVariation |-> currentVariation, phaseType |-> phaseType],
               [outcome |-> findAlternativeVariation(currentVariation,
                                                     call.exercises, phaseType),
                allExercises |-> call.exercises])


NextCatalog ==
    \/ \E k \in 1..MaxListLen : GetVariationsForExerciseCall(k)
    \/ \E disciplines \in DisciplineCriteria : FilterByDisciplineCall(disciplines)
    \/ \E disciplines \in DisciplineArrays : FilterByDisciplineArrayCall(disciplines)
    \/ \E framework \in FrameworkCriteria : FilterByFrameworkCall(framework)
    \/ \E phase \in PhaseCriteria : FilterByPhaseCall(phase)
    \/ \E discomforts \in DiscomfortLists : FilterByDiscomfortsCall(discomforts)
    \/ \E k \in 1..MaxListLen, id \in VariationIds : GetNextVariationCall(k, id)
    \/ \E currentVariation \in CurrentVariations, phaseType \in PhaseCriteria :
          FindAlternativeVariationCall(currentVariation, phaseType)

SpecCatalog == InitCatalog /\ [][NextCatalog]_vars

(***************************************************************************)
(* Notions the catalog claims are stated in                                *)
(***************************************************************************)
\* the set of lower-cased names of a list of names
LowerSet(names) == {ToLowerCase(names[i]) : i \in 1..Len(names)}

\* the exercises of `exercises` that satisfy Keep, in their order
Kept(exercises, Keep(_)) == SelectSeq(exercises, Keep)

(***************************************************************************)
(* C15 (as stated): filterExercisesByDiscipline returns, in input order,   *)
(* exactly the exercises whose discipline is a member of the criterion (a  *)
(* name or a list of names), and returns its input unchanged when the      *)
(* criterion is empty or absent (null, the empty string, an empty list).   *)
(***************************************************************************)
CriterionNames(criterion) ==
    IF "scalar" \in DOMAIN criterion
    THEN IF Falsy(criterion.scalar) THEN {} ELSE {criterion.scalar}
    ELSE Elements(criterion.array)

C15_AsClaimed ==
    call.op = "filterExercisesByDiscipline" =>
        LET names == CriterionNames(call.criterion)
            InCriterion(exercise) == exercise.discipline \in names
        IN  call.result = IF names = {} THEN call.exercises
                          ELSE Kept(call.exercises, InCriterion)

(***************************************************************************)
(* C16: for a framework name, filterExercisesByFramework keeps exactly the *)
(* exercises with a variation one of whose primary or secondary target     *)
(* muscles equals, ignoring case, a muscle configured for one of the       *)
(* slash-separated parts of the name; when no part is configured nothing   *)
(* is kept.                                                                *)
(***************************************************************************)
ConfiguredMuscles(framework) ==
    UNION {IF part \in DOMAIN FRAMEWORK_MUSCLE_MAPPINGS
           THEN LowerSet(FRAMEWORK_MUSCLE_MAPPINGS[part].primary)
                    \cup LowerSet(FRAMEWORK_MUSCLE_MAPPINGS[part].secondary)
           ELSE {}
           : part \in Elements(SplitFramework(framework))}

C16_FrameworkKeepsMatching ==
    (call.op = "filterExercisesByFramework" /\ ~Falsy(call.criterion)) =>
        LET Matches(exercise) ==
                \E k \in 1..Len(exercise.variations) :
                    (LowerSet(exercise.variations[k].primary)
                         \cup LowerSet(exercise.variations[k].secondary))
                        \cap ConfiguredMuscles(call.criterion) # {}
        IN  /\ call.result = Kept(call.exercises, Matches)
            /\ Elements(SplitFramework(call.criterion))
                   \cap DOMAIN FRAMEWORK_MUSCLE_MAPPINGS = {}
                   => call.result = <<>>

\* only the second part is configured, and the match is on a secondary muscle
\* written in another case
C16_Witness ==
    /\ call.op = "filterExercisesByFramework"
    /\ call.criterion = "Cardio/Legs"
    /\ call.exercises = <<F1, F2>>
    /\ call.result = <<F2>>

(***************************************************************************)
(* C17 (as stated): filterExercisesByPhase returns its input unchanged for *)
(* every phase name other than 'warmup', 'workout' and 'cooldown'.         *)
(***************************************************************************)
C17_UnknownPhaseIsIdentity ==
    (/\ call.op = "filterExercisesByPhase"
     /\ call.criterion \notin {"warmup", "workout", "cooldown"})
    => call.result = call.exercises

(***************************************************************************)
(* C18: for the phases warmup, workout and cooldown, filterExercisesByPhase *)
(* keeps exactly the exercises with a variation satisfying the phase's     *)
(* criteria: warmup, difficulty <= maxDifficulty and (progression type     *)
(* preferred or bilaterality the preferred one); workout, minDifficulty <= *)
(* difficulty <= maxDifficulty; cooldown, difficulty <= maxDifficulty and  *)
(* progression type preferred.                                             *)
(***************************************************************************)
SatisfiesWarmup(v) ==
    /\ Score(v) <= PHASE_CRITERIA.WARMUP.maxDifficulty
    /\ \/ v.progression_type
              \in Elements(PHASE_CRITERIA.WARMUP.preferredProgressionTypes)
       \/ v.bilaterality = PHASE_CRITERIA.WARMUP.preferredBilaterality

SatisfiesWorkout(v) ==
    /\ PHASE_CRITERIA.WORKOUT.minDifficulty <= Score(v)
    /\ Score(v) <= PHASE_CRITERIA.WORKOUT.maxDifficulty

SatisfiesCooldown(v) ==
    /\ Score(v) <= PHASE_CRITERIA.COOLDOWN.maxDifficulty
    /\ v.progression_type
           \in Elements(PHASE_CRITERIA.COOLDOWN.preferredProgressionTypes)

C18_PhaseKeepsSatisfying ==
    (/\ call.op = "filterExercisesByPhase"
     /\ call.criterion \in {"warmup", "workout", "cooldown"})
    => LET Fits(exercise) ==
               \E v \in Elements(exercise.variations) :
                   CASE call.criterion = "warmup" -> SatisfiesWarmup(v)
                     [] call.criterion = "workout" -> SatisfiesWorkout(v)
                     [] call.criterion = "cooldown" -> SatisfiesCooldown(v)
       IN  call.result = Kept(call.exercises, Fits)

\* f5 is kept for the warm-up through its bilaterality alone, f2 is dropped
C18_Witness ==
    /\ call.op = "filterExercisesByPhase"
    /\ call.criterion = "warmup"
    /\ call.exercises = <<F2, F5>>
    /\ call.result = <<F5>>

(***************************************************************************)
(* C19: filterExercisesByDiscomforts removes exactly the exercises with a  *)
(* variation whose primary target muscles intersect the discomfort list,   *)
(* ignoring case; an exercise naming a discomfort only among secondary     *)
(* muscles is kept, and the kept exercises keep their order.               *)
(***************************************************************************)
C19_DiscomfortsRemovePrimary ==
    call.op = "filterExercisesByDiscomforts" =>
        LET Safe(exercise) ==
                \A v \in Elements(exercise.variations) :
                    LowerSet(v.primary) \cap LowerSet(call.criterion) = {}
        IN  call.result = Kept(call.exercises, Safe)

\* f2 names quadriceps among its secondary muscles only, f3 as a primary one
C19_Witness ==
    /\ call.op = "filterExercisesByDiscomforts"
    /\ call.criterion = <<"QUADRICEPS">>
    /\ call.exercises = <<F2, F3>>
    /\ call.result = <<F2>>

(***************************************************************************)
(* C20: getNextVariation returns the variation right after                 *)
(* currentVariationId in the stable ascending-difficulty order of the      *)
(* exercise's variations, and null when that id is last in the order or is *)
(* not a variation of the exercise; applied repeatedly from the lowest     *)
(* variation it visits every variation once, in that order, and then gives *)
(* null.                                                                   *)
(***************************************************************************)
\* the variations visited from v on by following getNextVariation, at most
\* n steps
RECURSIVE Walk(_, _, _)
Walk(exercise, v, n) ==
    IF v = Null \/ n = 0 THEN <<>>
    ELSE <<v>> \o Walk(exercise, getNextVariation(exercise, v.id), n - 1)

C20_NextInDifficultyOrder ==
    call.op = "getNextVariation" =>
        LET exercise == call.criterion.exercise
            vs == exercise.variations
            id == call.criterion.currentVariationId
        IN  /\ call.result =
                   IF HasVariation(vs, id) /\ RankOfId(vs, id) < Len(vs)
                   THEN AtRank(vs, RankOfId(vs, id) + 1)
                   ELSE Null
            /\ Len(vs) > 0 =>
                   Walk(exercise, AtRank(vs, 1), Len(vs) + 1)
                       = [r \in 1..Len(vs) |-> AtRank(vs, r)]

\* f1's variations sorted are f1-b (2), f1-a (5), f1-c (5): after f1-a comes
\* f1-c, its equal in difficulty and later in the catalog
C20_Witness ==
    /\ call.op = "getNextVariation"
    /\ call.criterion.exercise = F1
    /\ call.criterion.currentVariationId = "f1-a"
    /\ call.result.id = "f1-c"

(***************************************************************************)
(* C21: getVariationsForExercise returns the exercise's variations         *)
(* rearranged: the same variations, each once, in ascending                *)
(* difficulty_score with a missing score counted as 0, variations of equal *)
(* score in the order of the exercise's list; and the exercise's own list  *)
(* is after the call in the order it was in before.                        *)
(***************************************************************************)
\* the rearrangements of the positions 1..n
Rearrangements(n) ==
    {p \in [1..n -> 1..n] : \A i, j \in 1..n : p[i] = p[j] => i = j}

C21_SortedStableCopy ==
    call.op = "getVariationsForExercise" =>
        LET vs == call.criterion.exercise.variations
            result == call.result.returned
        IN  /\ Len(result) = Len(vs)
            /\ \E p \in Rearrangements(Len(vs)) :
                   /\ \A i \in 1..Len(vs) : result[i] = vs[p[i]]
                   /\ \A i, j \in 1..Len(vs) :
                          i < j =>
                             \/ Score(vs[p[i]]) < Score(vs[p[j]])
                             \/ /\ Score(vs[p[i]]) = Score(vs[p[j]])
                                /\ p[i] < p[j]
            /\ call.result.exercise.variations = vs

\* f1 lists f1-a (5), f1-b (2), f1-c (5): f1-b moves to the front and the
\* two of score 5 keep their order
C21_Witness ==
    /\ call.op = "getVariationsForExercise"
    /\ call.criterion.exercise = F1
    /\ [i \in 1..3 |-> call.result.returned[i].id] = <<"f1-b", "f1-a", "f1-c">>
    /\ call.result.exercise = F1

(***************************************************************************)
(* loadExercises, fetch by fetch.  A process calls loadExercises up to     *)
(* MaxLoads times; every `await fetch(path)` is a step of its own, and     *)
(* what the paths answer may change between steps (the file is redeployed, *)
(* the network comes and goes).  locals holds the running call's position  *)
(* in the path list, its lastError and the answers it has received;        *)
(* loaded is what the last completed call produced, and outcome lists what *)
(* every completed call produced, in order.                                *)
(***************************************************************************)
MaxLoads == 2       \* loadExercises calls of one process

\* the three entries of `paths`
PathCount == 3

LoaderServers ==
    {<<Ok([exercises |-> CatalogTest]), Ok([exercises |-> CatalogTest]),
       Ok([exercises |-> CatalogTest])>>,
     <<Ok([exercises |-> CatalogWarm]), Ok([exercises |-> CatalogWarm]),
       Ok([exercises |-> CatalogWarm])>>,
     <<Ok([version |-> 1]), Ok([exercises |-> CatalogTest]),
       Ok([exercises |-> CatalogTest])>>,
     <<Fails("http"), Ok([exercises |-> CatalogTest]), Fails("reject")>>,
     <<Fails("reject"), Fails("jsonnull"), Ok([exercises |-> CatalogWarm])>>,
     <<Fails("http"), Fails("reject"), Fails("badjson")>>}

InitLoader ==
    /\ heap = <<>>
    /\ profile = <<>>
    /\ call = [op |-> "none"]
    /\ updates = 0
    /\ server \in LoaderServers
    /\ pc = "idle"
    /\ args = Null
    /\ loaded = Null
    /\ locals = Null
    /\ outcome = <<>>
    /\ WeeklyIdle
    /\ CacheIdle

CallLoadExercises ==
    /\ pc = "idle"
    /\ Len(outcome) < MaxLoads
    /\ pc' = "fetching"
    /\ locals' = [i |-> 1, lastError |-> Null, trace |-> <<>>]
    /\ call' = [op |-> "loadExercises"]
    /\ UNCHANGED <<heap, profile, updates, server, args, loaded, outcome>>
    /\ UNCHANGED weeklyVars
    /\ UNCHANGED cacheVars

\* one turn of `for (const path of paths)`: the fetch of paths[i] is
\* answered; an ok answer is returned, any failure becomes lastError and
\* the loop goes on, and after the last path lastError is rethrown wrapped
FetchPath ==
    /\ pc = "fetching"
    /\ LET i == locals.i
           answer == server[i]
           trace == Append(locals.trace, [path |-> i, answer |-> answer])
           error == [path |-> i, cause |-> answer.kind]
           result ==
               IF answer.kind = "ok"
               THEN [ok |-> TRUE, data |-> answer.data, trace |-> trace]
               ELSE [ok |-> FALSE,
                     error |-> [message |-> "Failed to load exercises",
                                cause |-> error],
                     trace |-> trace]
       IN  IF answer.kind # "ok" /\ i < PathCount
           THEN /\ locals' = [i |-> i + 1, lastError |-> error, trace |-> trace]
                /\ UNCHANGED <<pc, loaded, outcome>>
           ELSE /\ locals' = Null
                /\ pc' = "idle"
                /\ loaded' = result
                /\ outcome' = Append(outcome, result)
    /\ UNCHANGED <<heap, profile, updates, call, server, args>>
    /\ UNCHANGED weeklyVars
    /\ UNCHANGED cacheVars

\* what the paths answer changes
ServerChanges ==
    /\ Len(outcome) < MaxLoads
    /\ \E answers \in LoaderServers \ {server} : server' = answers
    /\ UNCHANGED <<heap, profile, updates, call, pc, args, loaded, locals, outcome>>
    /\ UNCHANGED weeklyVars
    /\ UNCHANGED cacheVars

NextLoader ==
    \/ CallLoadExercises
    \/ FetchPath
    \/ ServerChanges

SpecLoader == InitLoader /\ [][NextLoader]_vars

(***************************************************************************)
(* C22: a loadExercises call fetches the candidate paths in their fixed    *)
(* order, each at most once; it returns the data of the first path that    *)
(* answered with a success status and a body that parses as a catalog      *)
(* { exercises: [...] }, having fetched no later path; and it fails, with  *)
(* an error carrying the last path's error, only when every path failed.   *)
(***************************************************************************)
\* the answer is a success whose body is a catalog of the expected shape
IsCatalogAnswer(answer) ==
    /\ answer.kind = "ok"
    /\ "exercises" \in DOMAIN answer.data

C22_FirstCatalogInPathOrder ==
    \A n \in 1..Len(outcome) :
        LET result == outcome[n]
            trace == result.trace
            k == Len(trace)
        IN  /\ k \in 1..PathCount
            /\ \A j \in 1..k : trace[j].path = j
            /\ \A j \in 1..(k - 1) : ~IsCatalogAnswer(trace[j].answer)
            /\ IF result.ok
               THEN /\ IsCatalogAnswer(trace[k].answer)
                    /\ result.data = trace[k].answer.data
               ELSE /\ k = PathCount
                    /\ ~IsCatalogAnswer(trace[k].answer)
                    /\ result.error.cause =
                           [path |-> PathCount, cause |-> trace[k].answer.kind]

(***************************************************************************)
(* C23: once a loadExercises call has succeeded, the catalog is cached for *)
(* the life of the process: every later call returns that same catalog and *)
(* fetches nothing.                                                        *)
(***************************************************************************)
C23_CachedAfterSuccess ==
    \A n \in 1..Len(outcome) :
        outcome[n].ok =>
            /\ \A j \in (n + 1)..Len(outcome) :
                   /\ outcome[j].ok
                   /\ outcome[j].data = outcome[n].data
                   /\ outcome[j].trace = <<>>
            /\ Len(outcome) = n => pc # "fetching"

(***************************************************************************)
(* Notions the findAlternativeVariation claims are stated in               *)
(***************************************************************************)
\* the lower-cased primary and secondary target muscles of a variation
TargetMuscles(variation) == LowerSet(variation.primary \o variation.secondary)

\* the positions <<k, j>> of the variations of the catalog
CatalogPositions(allExercises) ==
    {<<k, j>> : k \in 1..Len(allExercises), j \in 1..3} \cap
    {p \in (1..Len(allExercises)) \X (1..3) :
        p[2] <= Len(allExercises[p[1]].variations)}

\* the item is the plan item of the variation at position p
IsItemOf(item, allExercises, p) ==
    LET variation == allExercises[p[1]].variations[p[2]]
    IN  /\ item.exerciseId = allExercises[p[1]].id
        /\ item.variationId = variation.id
        /\ item.bilaterality = variation.bilaterality
        /\ item.progression_type = variation.progression_type
        /\ item.target_muscles = [primary |-> variation.primary,
                                  secondary |-> variation.secondary]

\* number of shared muscles, and the larger of the two set sizes
Shared(current, variation) ==
    Cardinality(TargetMuscles(current) \cap TargetMuscles(variation))
Larger(current, variation) ==
    IF Cardinality(TargetMuscles(current)) >= Cardinality(TargetMuscles(variation))
    THEN Cardinality(TargetMuscles(current))
    ELSE Cardinality(TargetMuscles(variation))

\* the difficulty is inside the bounds configured for the phase
InsidePhaseBounds(difficulty, phaseType) ==
    phaseType \in {"warmup", "workout", "cooldown"} =>
        LET criteria == PHASE_CRITERIA[PhaseKey(phaseType)]
        IN  /\ "minDifficulty" \in DOMAIN criteria =>
                   difficulty >= criteria.minDifficulty
            /\ difficulty <= criteria.maxDifficulty

\* the variation at position p may be offered in place of current
Eligible(allExercises, p, current, phaseType) ==
    LET variation == allExercises[p[1]].variations[p[2]]
    IN  /\ allExercises[p[1]].id # current.exerciseId
        /\ 2 * Shared(current, variation) >= Larger(current, variation)
        /\ Larger(current, variation) > 0
        /\ InsidePhaseBounds(Score(variation), phaseType)

(***************************************************************************)
(* C24: every item findAlternativeVariation returns is a variation of a    *)
(* catalog exercise other than the current variation's exercise, shares    *)
(* with the current variation at least half of the larger of the two       *)
(* lower-cased primary-and-secondary muscle sets, and has a difficulty     *)
(* inside the bounds configured for the requested phase.                   *)
(***************************************************************************)
C24_AlternativesEligible ==
    (call.op = "findAlternativeVariation" /\ call.result.outcome.kind = "returned") =>
        LET items == call.result.outcome.plan
            current == call.criterion.currentVariation
            phaseType == call.criterion.phaseType
        IN  \A i \in 1..Len(items) :
                \E p \in CatalogPositions(call.exercises) :
                    /\ IsItemOf(items[i], call.exercises, p)
                    /\ Eligible(call.exercises, p, current, phaseType)

\* current x1 (chest, biceps) against f1 and f5 for the workout phase: f1-b,
\* f5-a and f5-b overlap enough but are too easy, and only f1-a is offered
C24_Witness ==
    /\ call.op = "findAlternativeVariation"
    /\ call.exercises = <<F1, F5>>
    /\ call.criterion.currentVariation # Null
    /\ call.criterion.currentVariation.exerciseId = "x1"
    /\ call.criterion.phaseType = "workout"
    /\ call.result.outcome.kind = "returned"
    /\ Len(call.result.outcome.plan) = 1
    /\ call.result.outcome.plan[1].variationId = "f1-a"

(***************************************************************************)
(* C25: findAlternativeVariation returns at most 3 items: the eligible     *)
(* candidates of highest score, where score = overlap ratio * 10 + 2 if    *)
(* the bilaterality differs from the current variation's + 1 if the        *)
(* progression type differs + 1 if the difficulty differs, in descending   *)
(* score with equal scores in catalog iteration order; every item has      *)
(* sets and reps null and no score field; the catalog is not modified.     *)
(***************************************************************************)
\* the claimed score of the variation at p, times Larger(current, variation)
ScoreTimesLarger(allExercises, p, current) ==
    LET variation == allExercises[p[1]].variations[p[2]]
        currentBilaterality == IF Falsy(current.bilaterality) THEN "bilateral"
                               ELSE current.bilaterality
        currentProgressionType == IF Falsy(current.progression_type) THEN ""
                                  ELSE current.progression_type
    IN  10 * Shared(current, variation)
        + Larger(current, variation)
          * ((IF variation.bilaterality # currentBilaterality THEN 2 ELSE 0)
             + (IF variation.progression_type # currentProgressionType THEN 1 ELSE 0)
             + (IF Score(variation) # Score(current) THEN 1 ELSE 0))

\* p is offered before q: a higher score, or the same score and earlier in
\* the catalog
OfferedBefore(allExercises, p, q, current) ==
    LET sp == ScoreTimesLarger(allExercises, p, current)
              * Larger(current, allExercises[q[1]].variations[q[2]])
        sq == ScoreTimesLarger(allExercises, q, current)
              * Larger(current, allExercises[p[1]].variations[p[2]])
    IN  \/ sp > sq
        \/ /\ sp = sq
           /\ \/ p[1] < q[1]
              \/ p[1] = q[1] /\ p[2] < q[2]

C25_TopThreeByScore ==
    (call.op = "findAlternativeVariation" /\ call.result.outcome.kind = "returned") =>
        LET items == call.result.outcome.plan
            current == call.criterion.currentVariation
            phaseType == call.criterion.phaseType
            eligible == IF current = Null THEN {}
                        ELSE {p \in CatalogPositions(call.exercises) :
                                 Eligible(call.exercises, p, current, phaseType)}
            Place(p) == 1 + Cardinality({q \in eligible :
                                OfferedBefore(call.exercises, q, p, current)})
        IN  /\ Len(items) = Min(Cardinality(eligible), TopAlternatives)
            /\ \A p \in eligible :
                   Place(p) <= TopAlternatives =>
                       IsItemOf(items[Place(p)], call.exercises, p)
            /\ \A i \in 1..Len(items) :
                   /\ items[i].sets = Null
                   /\ items[i].reps = Null
                   /\ "_swapScore" \notin DOMAIN items[i]
            /\ call.result.allExercises = call.exercises

\* the same, for catalogs in which every offered candidate has a
\* difficulty_score
AllScored(allExercises) ==
    \A p \in CatalogPositions(allExercises) :
        "difficulty_score" \in DOMAIN allExercises[p[1]].variations[p[2]]

C25_ScoredCatalogs ==
    (call.op = "findAlternativeVariation" /\ AllScored(call.exercises)) =>
        C25_TopThreeByScore

(***************************************************************************)
(* Progression.  An athlete starts with an empty milestone map and keeps   *)
(* training: each session of an exercise performs the variation            *)
(* selectVariationForUser returns for the map as it stands and records it  *)
(* with updateMilestone, whose result is the map of the next session.      *)
(* The counts are capped at OVERLOAD_PERIOD_SESSIONS, so the map can take  *)
(* finitely many values and no further bound is needed.  Fairness: the     *)
(* athlete goes on training every exercise.                                *)
(***************************************************************************)
ExP == Exercise("exP", "Pilates",
                <<Variation("P2", 4), Variation("P1", 1), Variation("P3", 8)>>)

ProgressionExercises == {ExA, ExP}

InitProgression ==
    /\ SessionIdle
    /\ WeeklyIdle
    /\ CacheIdle
    /\ updates = 0
    /\ call = [op |-> "none"]
    /\ heap = <<>>
    /\ profile = <<>>

PerformSession(exercise) ==
    \E variation \in {selectVariationForUser(exercise, View(profile, heap))} :
        /\ variation # Null
        /\ \E r \in {updateMilestone(exercise.id, variation.id, profile, heap)} :
               /\ heap' = r.heap
               /\ profile' = r.returned
        /\ call' = [op |-> "session", exerciseId |-> exercise.id,
                    variationId |-> variation.id]
        /\ UNCHANGED updates
        /\ UNCHANGED sessionVars
        /\ UNCHANGED weeklyVars
        /\ UNCHANGED cacheVars

NextProgression == \E exercise \in ProgressionExercises : PerformSession(exercise)

SpecProgression ==
    /\ InitProgression
    /\ [][NextProgression]_vars
    /\ \A exercise \in ProgressionExercises : WF_vars(PerformSession(exercise))

(***************************************************************************)
(* C26: starting from an empty milestone map and repeatedly performing the *)
(* variation selectVariationForUser chooses and recording it with          *)
(* updateMilestone, every variation of an exercise (distinct difficulties) *)
(* is selected at some time, the hardest included: the selection never     *)
(* stays for ever on a variation whose count has reached 3 while a harder  *)
(* one exists.                                                             *)
(***************************************************************************)
\* a session of the exercise has just performed the variation
Performed(exercise, variationId) ==
    /\ call.op = "session"
    /\ call.exerciseId = exercise.id
    /\ call.variationId = variationId

C26_ReachesTheTop ==
    \A exercise \in ProgressionExercises :
        \A k \in 1..3 :
            k <= Len(exercise.variations) =>
                <>Performed(exercise, exercise.variations[k].id)

\* with two variations the top is reached
C26_TwoVariations ==
    /\ <>Performed(ExA, "V1")
    /\ <>Performed(ExA, "V2")

\* the second variation of three is reached, and performed again once its
\* count is 3
C26_StuckOnSecond ==
    /\ <>Performed(ExP, "P2")
    /\ []~Performed(ExP, "P3")

(***************************************************************************)
(* Notions the claims on returned session plans are stated in             *)
(***************************************************************************)
\* the items of the three phases of the returned plan
PlanItems ==
    Elements(outcome.plan.phases.warmup)
        \cup Elements(outcome.plan.phases.workout)
        \cup Elements(outcome.plan.phases.cooldown)

\* some variation of the exercise has a primary muscle among the discomforts,
\* compared without regard to case
HitsDiscomfort(exercise, discomforts) ==
    \E k \in 1..Len(exercise.variations) :
        LowerSet(exercise.variations[k].primary) \cap LowerSet(discomforts) # {}

(***************************************************************************)
(* C27: no SessionPlan returned for user data with a non-empty discomfort  *)
(* list contains an exercise that has a variation whose primary muscles    *)
(* meet the discomfort list, compared ignoring case; no fallback brings an *)
(* excluded exercise back.                                                 *)
(***************************************************************************)
C27_DiscomfortsStayExcluded ==
    (SessionReturned /\ ListField(args.userData, "discomforts") # <<>>) =>
        \A item \in PlanItems :
            ~HitsDiscomfort(ExerciseOfItem(item),
                            ListField(args.userData, "discomforts"))

\* 'Pilates' / 'Unknown' with discomfort 'Back' on the seven-exercise
\* catalog: the framework fallback is taken, workout-ex3 ('back') and
\* workout-ex4 ('Back') are excluded, and the workout has the other four
C27_Witness ==
    /\ SessionReturned
    /\ LoadedCatalog = CatalogBig
    /\ args.discipline = "Pilates"
    /\ args.workout = "Unknown"
    /\ ListField(args.userData, "discomforts") = <<"Back">>
    /\ Len(outcome.plan.phases.workout) = 4

(***************************************************************************)
(* C28: when the catalog has at least one exercise of the requested        *)
(* discipline, every item of every phase of the returned plan belongs to   *)
(* an exercise of that discipline; exercises of other disciplines appear   *)
(* only when the catalog has none of the requested one.                    *)
(***************************************************************************)
C28_RequestedDisciplineOnly ==
    (/\ SessionReturned
     /\ ~Falsy(args.discipline)
     /\ \E e \in Elements(LoadedCatalog) : e.discipline = args.discipline)
    => \A item \in PlanItems :
           ExerciseOfItem(item).discipline = args.discipline

\* 'Weights' on a catalog of two Pilates and two Weights exercises, with a
\* framework that matches nothing
C28_Witness ==
    /\ SessionReturned
    /\ LoadedCatalog = CatalogMixed
    /\ args.discipline = "Weights"
    /\ args.workout = "Unknown"
    /\ \E item \in PlanItems : item.exerciseId = "weights-ex1"

(***************************************************************************)
(* C29: once generateWeeklySystem's own gates have passed (the catalog     *)
(* loaded and is not empty, the preferred-discipline filter and the        *)
(* equipment/discomfort filter left exercises) and the catalog stays       *)
(* loadable, every day's generation succeeds and a WeeklySystem with       *)
(* daysPerWeek sessions is returned: no day's generateSession fails with   *)
(* "No exercises available after filtering".                               *)
(***************************************************************************)
\* the gates passed: the per-day loop was entered
WeeklyGatesPassed ==
    /\ call.op = "generateWeeklySystem"
    /\ loaded # Null
    /\ loaded.ok
    /\ locals # Null

C29_EveryDaySucceeds ==
    (WeeklyGatesPassed /\ pc = "done") =>
        /\ WeeklyReturned
        /\ Len(outcome.system.sessions) = MergeConfig(args.config).daysPerWeek

(***************************************************************************)
(* dbService: the profile of one user, cached in localStorage and stored   *)
(* in Firestore.  saveUserProfile and getUserProfile are asynchronous:     *)
(* between the start of a setDoc or getDoc and the code that runs when it  *)
(* settles, other calls start and other requests settle, in any order.  A  *)
(* getDoc reads the document at some moment after it was sent and its      *)
(* answer is delivered later; a setDoc is applied at some moment and       *)
(* acknowledged later; either may fail instead (offline, timeout, other).  *)
(* localStorage holds the value without its _cachedAt stamp: whether the   *)
(* entry is stale by the clock is an input of getUserProfile.              *)
(***************************************************************************)
MaxCalls == 3       \* saveUserProfile / getUserProfile calls made

UserId == "user123"

ProfileDatas == {[displayName |-> "A"], [displayName |-> "B"]}

\* { id: userId, ...profileData }
UpdatedProfile(profileData) == [id |-> UserId] @@ profileData

\* the document after setDoc(userRef, {...profileData, updatedAt}, {merge: true})
MergedDoc(doc, profileData) ==
    LET written == profileData @@ [updatedAt |-> "serverTimestamp"]
    IN  IF doc = Null THEN written ELSE written @@ doc

\* { id: userSnap.id, ...userSnap.data() }
ProfileOfSnapshot(doc) == [id |-> UserId] @@ doc

CallsMade ==
    Cardinality({i \in 1..Len(events) : events[i].e \in {"save", "get"}})

InitProfileCache ==
    /\ SessionIdle
    /\ WeeklyIdle
    /\ heap = <<>>
    /\ profile = <<>>
    /\ updates = 0
    /\ call = [op |-> "none"]
    /\ inflight = {}
    /\ events = <<>>
    /\ \E doc \in {Null, MergedDoc(Null, [displayName |-> "old"])} :
          /\ firestore = doc
          /\ localStorage \in
                {Null} \cup (IF doc = Null THEN {} ELSE {ProfileOfSnapshot(doc)})

UnchangedEngine ==
    /\ UNCHANGED trackerVars
    /\ UNCHANGED sessionVars
    /\ UNCHANGED weeklyVars

\* saveUserProfile up to `await withTimeout(setDoc(...))`: the cache is
\* written first, then the write is sent
CallSaveUserProfile(profileData) ==
    /\ CallsMade < MaxCalls
    /\ localStorage' = UpdatedProfile(profileData)
    /\ events' = Append(events, [e |-> "save", data |-> profileData])
    /\ inflight' = inflight \cup {[id |-> Len(events'), kind |-> "setDoc",
                                   data |-> profileData, state |-> "sent"]}
    /\ UNCHANGED firestore
    /\ UnchangedEngine

\* the server applies a write
SetDocApplied(request) ==
    /\ request.kind = "setDoc"
    /\ request.state = "sent"
    /\ firestore' = MergedDoc(firestore, request.data)
    /\ inflight' = (inflight \ {request}) \cup {[request EXCEPT !.state = "applied"]}
    /\ UNCHANGED <<localStorage, events>>
    /\ UnchangedEngine

\* the await resolves: the cache is written again and the save has completed
SetDocResolves(request) ==
    /\ request.kind = "setDoc"
    /\ request.state = "applied"
    /\ localStorage' = UpdatedProfile(request.data)
    /\ inflight' = inflight \ {request}
    /\ events' = Append(events, [e |-> "saved", call |-> request.id,
                                 data |-> request.data])
    /\ UNCHANGED firestore
    /\ UnchangedEngine

\* the await rejects: an offline error or timeout makes the call return
\* with the cache as it is, any other error is rethrown
SetDocRejects(request, offline) ==
    /\ request.kind = "setDoc"
    /\ inflight' = inflight \ {request}
    /\ events' = Append(events, [e |-> IF offline THEN "save-offline"
                                       ELSE "save-failed",
                                 call |-> request.id])
    /\ UNCHANGED <<localStorage, firestore>>
    /\ UnchangedEngine

\* getUserProfile up to its return or its await: on a cache hit (an entry
\* that is fresh, or stale with returnStale) the entry is returned and the
\* fetch runs in the background; otherwise the caller awaits the fetch
CallGetUserProfile(skipCache, returnStale, stale) ==
    /\ CallsMade < MaxCalls
    /\ LET cached == localStorage
           hit == ~skipCache /\ cached # Null /\ (~stale \/ returnStale)
       IN  /\ events' = Append(events, [e |-> "get", hit |-> hit,
                                        returned |-> IF hit THEN cached ELSE Null])
           /\ inflight' = inflight \cup {[id |-> Len(events'), kind |-> "getDoc",
                                          state |-> "sent", background |-> hit,
                                          snapshot |-> Null]}
    /\ UNCHANGED <<localStorage, firestore>>
    /\ UnchangedEngine

\* the server reads the document for a getDoc
GetDocRead(request) ==
    /\ request.kind = "getDoc"
    /\ request.state = "sent"
    /\ inflight' = (inflight \ {request}) \cup
                       {[request EXCEPT !.state = "read", !.snapshot = firestore]}
    /\ UNCHANGED <<localStorage, firestore, events>>
    /\ UnchangedEngine

\* fetchUserProfileFromFirestore after its await: an existing document is
\* written to the cache, a missing one removes the cache entry
GetDocResolves(request) ==
    /\ request.kind = "getDoc"
    /\ request.state = "read"
    /\ localStorage' = IF request.snapshot # Null
                       THEN ProfileOfSnapshot(request.snapshot)
                       ELSE Null
    /\ inflight' = inflight \ {request}
    /\ events' = Append(events, [e |-> "fetched", call |-> request.id,
                                 background |-> request.background])
    /\ UNCHANGED firestore
    /\ UnchangedEngine

\* the await rejects: the cache is left as it is
GetDocRejects(request) ==
    /\ request.kind = "getDoc"
    /\ inflight' = inflight \ {request}
    /\ events' = Append(events, [e |-> "fetch-failed", call |-> request.id])
    /\ UNCHANGED <<localStorage, firestore>>
    /\ UnchangedEngine

NextProfileCache ==
    \/ \E profileData \in ProfileDatas : CallSaveUserProfile(profileData)
    \/ \E skipCache, returnStale, stale \in BOOLEAN :
          CallGetUserProfile(skipCache, returnStale, stale)
    \/ \E request \in inflight : SetDocApplied(request)
    \/ \E request \in inflight : SetDocResolves(request)
    \/ \E request \in inflight, offline \in BOOLEAN : SetDocRejects(request, offline)
    \/ \E request \in inflight : GetDocRead(request)
    \/ \E request \in inflight : GetDocResolves(request)
    \/ \E request \in inflight : GetDocRejects(request)

SpecProfileCache == InitProfileCache /\ [][NextProfileCache]_vars

(***************************************************************************)
(* C30: once a saveUserProfile(u, P) has completed successfully, the       *)
(* cached profile of u is the saved one until a later save for u starts or *)
(* a fetch started after that save's completion completes.  In particular  *)
(* a background fetch started by an earlier cache-hit getUserProfile(u)    *)
(* and completing after the save neither replaces the cached profile with  *)
(* older server data nor removes it.                                       *)
(***************************************************************************)
\* the positions in events of the saves that completed successfully
CompletedSaves == {i \in 1..Len(events) : events[i].e = "saved"}

\* the cached profile carries the saved data
HoldsSaved(cached, profileData) ==
    /\ cached # Null
    /\ \A f \in DOMAIN UpdatedProfile(profileData) :
          f \in DOMAIN cached /\ cached[f] = UpdatedProfile(profileData)[f]

\* since the save completed at position i, no save has started or completed
\* and no fetch started after i has completed
StillSettled(i) ==
    \A j \in (i + 1)..Len(events) :
        /\ events[j].e \notin {"save", "saved"}
        /\ events[j].e = "fetched" => events[j].call < i

C30_CacheHoldsSavedProfile ==
    \A i \in CompletedSaves :
        StillSettled(i) => HoldsSaved(localStorage, events[i].data)

\* the part of the claim on background fetches alone
C30_BackgroundFetchHarmless ==
    \A i \in CompletedSaves :
        (/\ StillSettled(i)
         /\ events[Len(events)].e = "fetched"
         /\ events[Len(events)].background)
        => HoldsSaved(localStorage, events[i].data)

====
